---- MODULE Spec2Model ----
(***************************************************************************)
(* Deal-or-No-Deal multiplayer server: one room of the in-memory room      *)
(* store (backend/src/store/rooms.ts) driven by the socket event handlers  *)
(* and timers of the game engine (backend/src/socket/handlers.ts), with    *)
(* the banker (game/banker.ts) and the scoring function (game/points.ts).  *)
(*                                                                         *)
(* Money is counted in pence, so that the 1p box is the integer 1.         *)
(* Player ids are the positions in the insertion-ordered players map.      *)
(* Indexes into turnOrder are zero-based, as in the source.                *)
(***************************************************************************)
EXTENDS Integers, Sequences, FiniteSets, TLC

(* ------------------------------ bounds --------------------------------- *)
\* number of boxes of the scaled-down room (the program has 20)
NumBoxes == 8
\* player records one room may hold in the model (contestants and spectators)
MaxPlayers == 3
\* connections that send events
MaxSockets == 3
\* select-box names a box number in 0..MaxSelectBox, or NumBoxes + 1
MaxSelectBox == 2
\* open-box names 0, NumBoxes + 1, a personal box, the lowest-numbered opened
\* box, or one of the MaxOpenChoice lowest-numbered openable boxes
MaxOpenChoice == 1
\* number of boxes of the larger room, which lasts beyond its second round
NumLargeBoxes == 12
\* rounds after which no further round is started
MaxRound == 4
\* deadlines the players of the room may miss, in total
MaxTimeouts == 1
\* finalisations of the room
MaxGames == 2
\* start-game events that take effect
MaxStarts == 2
\* delayed offer triggers pending at once
MaxDelayed == 1
\* delayed offer triggers pending at once in the larger room
MaxLargeDelayed == 2
\* the round at which the round counter of a game played to the end stays
LastDistinctRound == 6
\* the hidden values are the ladder rotated by 0..MaxShift positions
MaxShift == 1
\* player records of the room whose last connection joins again and again
MaxJoined == 7
\* chat messages kept by the model (the program keeps the last 100)
MaxChat == 1
\* players of the room whose connections drop and come back
MaxResidents == 2
\* the clock (Date.now(), counted in hours) runs from 1 to MaxNow
MaxNow == 17
\* the longest display name of the scaled-down sanitiser (the program has 16)
MaxNameLength == 3
\* the longest name a payload carries
MaxNameInput == 5

(* ----------------------------- constants ------------------------------- *)
Null == -1

BOX_VALUES ==
    << 1, 100, 500, 1000, 5000, 10000, 25000, 50000, 75000, 100000,
       300000, 500000, 1000000, 1500000, 2000000, 3500000, 5000000,
       7500000, 10000000, 25000000 >>

\* the code of the room (codes are upper case) and a code of no room
RoomCode == "ROOM01"
NoRoomCode == "NOROOM"
\* the code of the second room of the store
OtherCode == "ROOM02"
\* the second room while it is not in the store
NoOtherRoom == [createdAt |-> Null, sockets |-> << >>]

MAX_PLAYERS_PER_ROOM == 6
MIN_PLAYERS_TO_START == 2

\* the scaled ladder: NumBoxes values of BOX_VALUES, in ladder order
LadderIndex(i) == IF i = 1 THEN 1 ELSE 2 * i - 2
Ladder == [i \in 1..NumBoxes |-> BOX_VALUES[LadderIndex(i)]]

\* 0.9 + Math.random() * 0.2, in percent
RandomFactors == {90, 109}

getBoxesToOpenForRound(round) ==
    CASE round = 1 -> 5
      [] round = 2 -> 4
      [] round = 3 -> 3
      [] round = 4 -> 2
      [] OTHER -> 1

(* --------------------------- sequence helpers -------------------------- *)
Range(s) == {s[i] : i \in DOMAIN s}

Min(a, b) == IF a < b THEN a ELSE b
Max(a, b) == IF a > b THEN a ELSE b

RECURSIVE SumSeq(_)
SumSeq(s) == IF s = <<>> THEN 0 ELSE Head(s) + SumSeq(Tail(s))

\* Array.prototype.indexOf, one-based; 0 when absent
IndexOf(s, x) ==
    IF \E i \in DOMAIN s : s[i] = x
    THEN CHOOSE i \in DOMAIN s : s[i] = x /\ \A j \in 1..(i - 1) : s[j] # x
    ELSE 0

\* Array.prototype.splice(i, 1), one-based
RemoveAt(s, i) == [j \in 1..(Len(s) - 1) |-> IF j < i THEN s[j] ELSE s[j + 1]]

\* the multiset of the elements of a sequence
BagOf(s) == [x \in Range(s) |-> Cardinality({i \in DOMAIN s : s[i] = x})]

(* ------------------------------- state --------------------------------- *)
VARIABLES
    gameState,          \* room.gameState of the room
    turnTimers,         \* player the pending turn timer was armed for, or Null
    offerTimers,        \* TRUE while an offer timer is pending
    offerTriggers,      \* pending 1.5 s delayed calls of triggerBankerOffer
    socketToPlayer,     \* socketId -> playerId (Null: not mapped)
    globalLeaderboard,  \* playerId -> [totalPoints, gamesPlayed]
    gameEnded,          \* 'game-ended' room broadcasts: count and last leaderboard
    chatMessages,       \* the chat history of the room
    rooms,              \* the codes of the rooms in the store
    now,                \* Date.now(), in hours
    agedTimers,         \* classes of pending timers armed before the current hour
    timerRuns,          \* the timer callback (or turn move) that ran last, and a bit that each of them flips
    orphanTimers,       \* timers armed over a pending timer of their class that was not cancelled
    otherRoom,          \* the second room of the store: when it was created and its players' connections
    playerName          \* the display name a payload carries, then as stored

vars == << gameState, turnTimers, offerTimers, offerTriggers, socketToPlayer,
           globalLeaderboard, gameEnded, chatMessages, rooms, now, agedTimers, timerRuns, orphanTimers, otherRoom,
           playerName >>

Sockets == 1..MaxSockets

\* the part of the state the engine functions work on
World == [gs |-> gameState, turnTimers |-> turnTimers, offerTimers |-> offerTimers,
          offerTriggers |-> offerTriggers, globalLeaderboard |-> globalLeaderboard,
          gameEnded |-> gameEnded, now |-> now, aged |-> agedTimers,
          runs |-> timerRuns, orphans |-> orphanTimers]

\* the classes of timers pending in world w
PendingTimers(w) ==
    (IF w.turnTimers # Null THEN {"turn"} ELSE {})
        \cup (IF w.offerTimers THEN {"offer"} ELSE {})
        \cup (IF w.offerTriggers > 0 THEN {"trigger"} ELSE {})

Commit(w) ==
    /\ gameState' = w.gs
    /\ turnTimers' = w.turnTimers
    /\ offerTimers' = w.offerTimers
    /\ offerTriggers' = w.offerTriggers
    /\ globalLeaderboard' = w.globalLeaderboard
    /\ gameEnded' = w.gameEnded
    /\ agedTimers' = w.aged \cap PendingTimers(w)
    /\ timerRuns' = w.runs
    /\ orphanTimers' = w.orphans
    /\ UNCHANGED << rooms, now, playerName, otherRoom >>

PlayerIds(gs) == DOMAIN gs.players

NewPlayer(socketId, isHost, role) ==
    [ socketId |-> socketId, isHost |-> isHost, isReady |-> (role = "spectator"),
      role |-> role, boxNumber |-> Null, hasDealt |-> (role = "spectator"),
      dealAmount |-> Null, boxValue |-> Null, roundDealt |-> Null,
      isLastStanding |-> FALSE, points |-> 0, timeoutCount |-> 0,
      isConnected |-> TRUE ]

\* shuffleArray: the model draws the shuffle from the rotations of the ladder
\* (rotated by k, box 1 holds the k-th highest value)
Shuffled(k) == [i \in 1..NumBoxes |-> Ladder[((i - 1 + k * (NumBoxes - 1)) % NumBoxes) + 1]]

createInitialBoxes(k) ==
    [i \in 1..NumBoxes |->
        [value |-> Shuffled(k)[i], isOpened |-> FALSE, openedByPlayerId |-> Null]]

\* createRoom(hostSocketId, hostName): the host is player 1 on socket 1
createRoom(k) ==
    [ phase |-> "waiting",
      players |-> << NewPlayer(1, TRUE, "player") >>,
      boxes |-> createInitialBoxes(k),
      currentRound |-> 0,
      boxesOpenedThisRound |-> <<>>,
      remainingValues |-> Ladder,
      eliminatedValues |-> <<>>,
      currentOffer |-> Null,
      offerExpiresAt |-> Null,
      offerEligiblePlayerIds |-> <<>>,
      offerResponses |-> << >>,
      turnOrder |-> <<>>,
      currentTurnIndex |-> 0,
      currentTurnPlayerId |-> Null,
      turnExpiresAt |-> Null,
      hostId |-> 1,
      password |-> Null,
      \* Date.now() at the creation: the clock starts at 1
      createdAt |-> 1,
      \* Date.now() of the last start, counted in starts; 0 stands for null
      startedAt |-> 0,
      \* Date.now() of the last start, in hours
      startedTime |-> Null,
      finishedAt |-> Null ]

\* the room and the store after createRoom
InitRoom ==
    /\ \E k \in 0..MaxShift : gameState = createRoom(k)
    /\ turnTimers = Null
    /\ offerTimers = FALSE
    /\ offerTriggers = 0
    /\ socketToPlayer = [s \in Sockets |-> IF s = 1 THEN 1 ELSE Null]
    /\ globalLeaderboard = << >>
    /\ gameEnded = [count |-> 0, leaderboard |-> <<>>]
    /\ chatMessages = << >>
    /\ rooms = {RoomCode}
    /\ now = 1
    /\ agedTimers = {}
    /\ timerRuns = [timer |-> "none", flip |-> FALSE]
    /\ orphanTimers = 0
    /\ otherRoom = NoOtherRoom

Init == InitRoom /\ playerName = << >>

(* ------------------------- game/banker.ts ------------------------------ *)
\* roundModifiers[Math.min(round - 1, roundModifiers.length - 1)], in percent
RoundModifier(round) ==
    LET roundModifiers == << 70, 80, 90, 95, 100, 105 >>
    IN  roundModifiers[Min(round - 1, Len(roundModifiers) - 1) + 1]

\* Math.round(avg * baseModifier * randomFactor / 10) * 10, exactly: the sum is
\* split into pounds and pence to keep the products in range
getBankerOffer(remainingValues, round, randomFactor) ==
    IF Len(remainingValues) = 0 THEN 0
    ELSE LET sum == SumSeq(remainingValues)
             f == RoundModifier(round) * randomFactor
             a == (sum \div 100) * f
             b == (sum % 100) * f
             d == Len(remainingValues) * 100000
         IN  ((2 * a + ((2 * b) \div 100) + d) \div (2 * d)) * 1000

calculateBankerOffer(remainingValues, round, randomFactor) ==
    getBankerOffer(remainingValues, round, randomFactor)

(* ------------------------- game/points.ts ------------------------------ *)
calculatePoints(finalWinnings, finalBoxValue, roundDealt, isLastStanding, isHighestWinnings, timeoutCount) ==
    LET base == Min(finalWinnings \div 10000, 3000)
        smart == IF finalWinnings > finalBoxValue THEN 200 ELSE 0
        guts == IF roundDealt >= 4 THEN 150 ELSE 0
        early == IF roundDealt <= 2 THEN 50 ELSE 0
        last == IF isLastStanding THEN 200 ELSE 0
        high == IF isHighestWinnings THEN 200 ELSE 0
    IN  Max(base + smart + guts - early + last + high - timeoutCount * 50, 0)

(* ---------------------- engine: queries on a room ---------------------- *)
Ids(gs) == [i \in 1..Len(gs.players) |-> i]

\* p.role === 'player' && p.boxNumber !== null
IsContestant(gs, id) ==
    gs.players[id].role = "player" /\ gs.players[id].boxNumber # Null

\* p.role === 'player' && p.boxNumber !== null && !p.hasDealt
IsActive(gs, id) == IsContestant(gs, id) /\ ~gs.players[id].hasDealt

ContestantIds(gs) == SelectSeq(Ids(gs), LAMBDA id : IsContestant(gs, id))
ActiveIds(gs) == SelectSeq(Ids(gs), LAMBDA id : IsActive(gs, id))

hasOpenableBoxes(gs) ==
    LET isReservedPlayerBox(boxNumber) ==
            \E id \in PlayerIds(gs) :
                gs.players[id].role = "player" /\ gs.players[id].boxNumber = boxNumber
    IN  \E b \in DOMAIN gs.boxes : ~gs.boxes[b].isOpened /\ ~isReservedPlayerBox(b)

checkGameEnd(gs) == Len(ActiveIds(gs)) = 0

\* the id of the only active player, or Null
getLastActivePlayer(gs) == IF Len(ActiveIds(gs)) = 1 THEN ActiveIds(gs)[1] ELSE Null

allPlayersReady(gs) ==
    LET ps == {id \in PlayerIds(gs) : gs.players[id].role = "player"}
    IN  /\ Cardinality(ps) >= MIN_PLAYERS_TO_START
        /\ \A id \in ps : gs.players[id].isReady /\ gs.players[id].boxNumber # Null

\* getNextActivePlayerIndex that does not skip the players who have dealt
getNextActivePlayerIndexDealt(gs, startIndex) ==
    LET n == Len(gs.turnOrder)
        ok(i) == gs.players[gs.turnOrder[((startIndex + i) % n) + 1]].role = "player"
    IN  IF n = 0 THEN -1
        ELSE IF \E i \in 0..(n - 1) : ok(i)
             THEN LET i == CHOOSE i \in 0..(n - 1) : ok(i) /\ \A j \in 0..(i - 1) : ~ok(j)
                  IN  (startIndex + i) % n
             ELSE -1

\* zero-based index into turnOrder, or -1
getNextActivePlayerIndex(gs, startIndex) ==
    LET n == Len(gs.turnOrder)
        ok(i) == LET id == gs.turnOrder[((startIndex + i) % n) + 1]
                 IN  ~gs.players[id].hasDealt /\ gs.players[id].role = "player"
    IN  IF n = 0 THEN -1
        ELSE IF \E i \in 0..(n - 1) : ok(i)
             THEN LET i == CHOOSE i \in 0..(n - 1) : ok(i) /\ \A j \in 0..(i - 1) : ~ok(j)
                  IN  (startIndex + i) % n
             ELSE -1

clearTurnTimer(w) == [w EXCEPT !.turnTimers = Null]
clearOfferTimer(w) == [w EXCEPT !.offerTimers = FALSE]

\* RevealBox that drops the value instead of moving it to eliminatedValues
RevealBoxDropsValue(gs, boxNumber, opener) ==
    LET value == gs.boxes[boxNumber].value
        valueIndex == IndexOf(gs.remainingValues, value)
    IN  [gs EXCEPT
            !.boxes[boxNumber].isOpened = TRUE,
            !.boxes[boxNumber].openedByPlayerId = opener,
            !.remainingValues = IF valueIndex > 0 THEN RemoveAt(@, valueIndex) ELSE @]

\* box.isOpened = true; box.openedByPlayerId = opener; move box.value from
\* remainingValues to eliminatedValues when it is among the remaining ones
RevealBox(gs, boxNumber, opener) ==
    LET value == gs.boxes[boxNumber].value
        valueIndex == IndexOf(gs.remainingValues, value)
    IN  [gs EXCEPT
            !.boxes[boxNumber].isOpened = TRUE,
            !.boxes[boxNumber].openedByPlayerId = opener,
            !.remainingValues = IF valueIndex > 0 THEN RemoveAt(@, valueIndex) ELSE @,
            !.eliminatedValues = IF valueIndex > 0 THEN Append(@, value) ELSE @]

(* ---------------------- engine: the public snapshot -------------------- *)
\* createGameStateUpdate that copies box.value whether or not the box is opened
createGameStateUpdateLeaky(gs, forPlayerId, recentlyOpenedBox) ==
    [ phase |-> gs.phase,
      boxes |-> [b \in DOMAIN gs.boxes |->
                    [number |-> b, isOpened |-> gs.boxes[b].isOpened,
                     value |-> gs.boxes[b].value]],
      remainingValues |-> gs.remainingValues,
      eliminatedValues |-> gs.eliminatedValues,
      currentOffer |-> gs.currentOffer,
      recentlyOpenedBox |-> recentlyOpenedBox ]

\* the 'game-state-update' payload built for forPlayerId (names are not modelled)
createGameStateUpdate(gs, forPlayerId, recentlyOpenedBox) ==
    LET players == [id \in DOMAIN gs.players |->
            LET p == gs.players[id]
            IN  [id |-> id, isHost |-> p.isHost, isReady |-> p.isReady,
                 role |-> p.role, boxNumber |-> p.boxNumber, hasDealt |-> p.hasDealt,
                 dealAmount |-> p.dealAmount,
                 isActive |-> (~p.hasDealt /\ p.boxNumber # Null /\ p.role = "player"),
                 isConnected |-> p.isConnected]]
        owners(b) == {id \in PlayerIds(gs) : gs.players[id].boxNumber = b}
        boxes == [b \in DOMAIN gs.boxes |->
            [number |-> b,
             isOpened |-> gs.boxes[b].isOpened,
             value |-> IF gs.boxes[b].isOpened THEN gs.boxes[b].value ELSE Null,
             isPlayerBox |-> (forPlayerId \in PlayerIds(gs)
                              /\ gs.players[forPlayerId].boxNumber = b),
             ownerId |-> IF owners(b) = {} THEN Null
                         ELSE CHOOSE id \in owners(b) : \A o \in owners(b) : id <= o]]
    IN  [ phase |-> gs.phase,
          players |-> players,
          boxes |-> boxes,
          currentRound |-> gs.currentRound,
          boxesToOpenThisRound |-> getBoxesToOpenForRound(gs.currentRound),
          boxesOpenedThisRound |-> gs.boxesOpenedThisRound,
          remainingValues |-> gs.remainingValues,
          eliminatedValues |-> gs.eliminatedValues,
          currentOffer |-> gs.currentOffer,
          offerExpiresAt |-> gs.offerExpiresAt,
          currentTurnPlayerId |-> gs.currentTurnPlayerId,
          turnExpiresAt |-> gs.turnExpiresAt,
          recentlyOpenedBox |-> recentlyOpenedBox ]

(* ---------------------- engine: finalisation --------------------------- *)
\* the entries left in the order of the players map
SortByPointsUnsorted(entries) == entries

\* entries.sort((a, b) => b.points - a.points): stable, points descending
RECURSIVE SortByPoints(_)
SortByPoints(entries) ==
    IF entries = <<>> THEN <<>>
    ELSE LET n == Len(entries)
             sorted == SortByPoints(SubSeq(entries, 1, n - 1))
             e == entries[n]
             k == Cardinality({i \in DOMAIN sorted : sorted[i].points >= e.points})
         IN  SubSeq(sorted, 1, k) \o << e >> \o SubSeq(sorted, k + 1, Len(sorted))

updateGlobalLeaderboard(global, playerId, pointsEarned) ==
    IF playerId \in DOMAIN global
    THEN [global EXCEPT ![playerId] =
            [totalPoints |-> @.totalPoints + pointsEarned,
             gamesPlayed |-> @.gamesPlayed + 1]]
    ELSE [id \in DOMAIN global \cup {playerId} |->
            IF id = playerId
            THEN [totalPoints |-> pointsEarned, gamesPlayed |-> 1]
            ELSE global[id]]

RECURSIVE UpdateGlobalAll(_, _, _)
UpdateGlobalAll(global, ids, players) ==
    IF ids = <<>> THEN global
    ELSE UpdateGlobalAll(
            updateGlobalLeaderboard(global, Head(ids), players[Head(ids)].points),
            Tail(ids), players)

\* p.dealAmount || 0, p.boxValue || 0
OrZero(x) == IF x = Null THEN 0 ELSE x

BuildLeaderboard(players, ids) ==
    LET entries == [k \in DOMAIN ids |->
                      [playerId |-> ids[k],
                       amount |-> OrZero(players[ids[k]].dealAmount),
                       points |-> players[ids[k]].points,
                       wasBoxValue |-> players[ids[k]].isLastStanding]]
        sorted == SortByPoints(entries)
    IN  [k \in DOMAIN sorted |->
            [playerId |-> sorted[k].playerId, amount |-> sorted[k].amount,
             points |-> sorted[k].points, wasBoxValue |-> sorted[k].wasBoxValue,
             rank |-> k]]

\* FinalPoints without the highest-winnings bonus, as in the provisional
\* points of an accepted deal
FinalPointsProvisional(gs, id, highestWinnings) ==
    LET p == gs.players[id]
        finalWinnings == OrZero(p.dealAmount)
        roundDealt == IF p.roundDealt = Null \/ p.roundDealt = 0
                      THEN gs.currentRound ELSE p.roundDealt
    IN  calculatePoints(finalWinnings, OrZero(p.boxValue), roundDealt,
                        p.isLastStanding, FALSE, p.timeoutCount)

FinalPoints(gs, id, highestWinnings) ==
    LET p == gs.players[id]
        finalWinnings == OrZero(p.dealAmount)
        roundDealt == IF p.roundDealt = Null \/ p.roundDealt = 0
                      THEN gs.currentRound ELSE p.roundDealt
    IN  calculatePoints(finalWinnings, OrZero(p.boxValue), roundDealt,
                        p.isLastStanding, finalWinnings = highestWinnings,
                        p.timeoutCount)

finishGame(w) ==
    LET gs == w.gs
        ids == ContestantIds(gs)
        amounts == {OrZero(gs.players[id].dealAmount) : id \in Range(ids)}
        highestWinnings == IF ids = <<>> THEN 0
                           ELSE CHOOSE a \in amounts : \A b \in amounts : b <= a
        players2 == [id \in DOMAIN gs.players |->
                        IF id \in Range(ids)
                        THEN [gs.players[id] EXCEPT
                                !.points = FinalPoints(gs, id, highestWinnings)]
                        ELSE gs.players[id]]
    IN  [w EXCEPT
            !.turnTimers = Null,
            !.offerTimers = FALSE,
            !.globalLeaderboard = UpdateGlobalAll(@, ids, players2),
            !.gameEnded = [count |-> @.count + 1,
                           leaderboard |-> BuildLeaderboard(players2, ids)],
            !.gs = [gs EXCEPT
                      !.players = players2,
                      !.phase = "finished",
                      !.finishedAt = w.now,
                      !.currentOffer = Null,
                      !.offerExpiresAt = Null,
                      !.currentTurnPlayerId = Null,
                      !.turnExpiresAt = Null,
                      !.offerEligiblePlayerIds = <<>>,
                      !.offerResponses = << >>]]

\* finishLastPlayer that does not mark the player as last-standing
finishLastPlayerUnmarked(w, playerId) ==
    LET gs == w.gs
        player == gs.players[playerId]
        gs1 == [gs EXCEPT
                  !.players[playerId].hasDealt = TRUE,
                  !.players[playerId].dealAmount = player.boxValue,
                  !.players[playerId].roundDealt = gs.currentRound]
        gs2 == IF player.boxNumber \in DOMAIN gs.boxes
               THEN RevealBox(gs1, player.boxNumber, playerId)
               ELSE gs1
    IN  finishGame([w EXCEPT !.gs = gs2])

finishLastPlayer(w, playerId) ==
    LET gs == w.gs
        player == gs.players[playerId]
        gs1 == [gs EXCEPT
                  !.players[playerId].hasDealt = TRUE,
                  !.players[playerId].dealAmount = player.boxValue,
                  !.players[playerId].roundDealt = gs.currentRound,
                  !.players[playerId].isLastStanding = TRUE]
        gs2 == IF player.boxNumber \in DOMAIN gs.boxes
               THEN RevealBox(gs1, player.boxNumber, playerId)
               ELSE gs1
    IN  finishGame([w EXCEPT !.gs = gs2])

(* ---------------------- engine: offers and turns ---------------------- *)
\* triggerBankerOffer that makes every player record of the room eligible
triggerBankerOfferAllPlayers(w, randomFactor) ==
    LET w1 == clearOfferTimer(clearTurnTimer(w))
        gs == w1.gs
        lastPlayer == getLastActivePlayer(gs)
    IN  IF lastPlayer # Null THEN finishLastPlayer(w1, lastPlayer)
        ELSE IF checkGameEnd(gs) THEN finishGame(w1)
        ELSE [w1 EXCEPT
                !.gs = [gs EXCEPT
                          !.phase = "offer",
                          !.currentOffer = calculateBankerOffer(
                              gs.remainingValues, gs.currentRound, randomFactor),
                          !.offerExpiresAt = 1,
                          !.offerEligiblePlayerIds = Ids(gs),
                          !.offerResponses = << >>,
                          !.currentTurnPlayerId = Null,
                          !.turnExpiresAt = Null],
                !.offerTimers = TRUE,
                !.orphans = @ + (IF w1.offerTimers THEN 1 ELSE 0),
                !.aged = @ \ {"offer"}]

triggerBankerOffer(w, randomFactor) ==
    LET w1 == clearOfferTimer(clearTurnTimer(w))
        gs == w1.gs
        lastPlayer == getLastActivePlayer(gs)
    IN  IF lastPlayer # Null THEN finishLastPlayer(w1, lastPlayer)
        ELSE IF checkGameEnd(gs) THEN finishGame(w1)
        ELSE [w1 EXCEPT
                !.gs = [gs EXCEPT
                          !.phase = "offer",
                          !.currentOffer = calculateBankerOffer(
                              gs.remainingValues, gs.currentRound, randomFactor),
                          !.offerExpiresAt = 1,
                          !.offerEligiblePlayerIds = ActiveIds(gs),
                          !.offerResponses = << >>,
                          !.currentTurnPlayerId = Null,
                          !.turnExpiresAt = Null],
                !.offerTimers = TRUE,
                !.orphans = @ + (IF w1.offerTimers THEN 1 ELSE 0),
                !.aged = @ \ {"offer"}]

\* setCurrentTurn without the check for openable boxes
setCurrentTurnUnchecked(w, randomFactor) ==
    IF w.gs.phase # "playing" THEN w
    ELSE LET w1 == clearTurnTimer(w)
             nextIdx == getNextActivePlayerIndex(w1.gs, w1.gs.currentTurnIndex)
         IN  IF nextIdx = -1 THEN w1
             ELSE [w1 EXCEPT
                     !.gs = [w1.gs EXCEPT
                               !.currentTurnIndex = nextIdx,
                               !.currentTurnPlayerId = w1.gs.turnOrder[nextIdx + 1],
                               !.turnExpiresAt = 1],
                     !.turnTimers = w1.gs.turnOrder[nextIdx + 1],
                     !.orphans = @ + (IF w1.turnTimers # Null THEN 1 ELSE 0),
                     !.aged = @ \ {"turn"}]

\* setCurrentTurn that arms the turn timer without clearing the pending one
setCurrentTurnKeepsTimer(w, randomFactor) ==
    IF w.gs.phase # "playing" THEN w
    ELSE IF ~hasOpenableBoxes(w.gs) THEN triggerBankerOffer(w, randomFactor)
    ELSE LET w1 == w
             nextIdx == getNextActivePlayerIndex(w1.gs, w1.gs.currentTurnIndex)
         IN  IF nextIdx = -1 THEN w1
             ELSE [w1 EXCEPT
                     !.gs = [w1.gs EXCEPT
                               !.currentTurnIndex = nextIdx,
                               !.currentTurnPlayerId = w1.gs.turnOrder[nextIdx + 1],
                               !.turnExpiresAt = 1],
                     !.turnTimers = w1.gs.turnOrder[nextIdx + 1],
                     !.orphans = @ + (IF w1.turnTimers # Null THEN 1 ELSE 0),
                     !.aged = @ \ {"turn"}]

setCurrentTurn(w, randomFactor) ==
    IF w.gs.phase # "playing" THEN w
    ELSE IF ~hasOpenableBoxes(w.gs) THEN triggerBankerOffer(w, randomFactor)
    ELSE LET w1 == clearTurnTimer(w)
             nextIdx == getNextActivePlayerIndex(w1.gs, w1.gs.currentTurnIndex)
         IN  IF nextIdx = -1 THEN w1
             ELSE [w1 EXCEPT
                     !.gs = [w1.gs EXCEPT
                               !.currentTurnIndex = nextIdx,
                               !.currentTurnPlayerId = w1.gs.turnOrder[nextIdx + 1],
                               !.turnExpiresAt = 1],
                     !.turnTimers = w1.gs.turnOrder[nextIdx + 1],
                     !.orphans = @ + (IF w1.turnTimers # Null THEN 1 ELSE 0),
                     !.aged = @ \ {"turn"}]

\* handleTurnTimeout that counts the timeout and arms the turn for the same
\* player again
handleTurnTimeoutKeepsTurn(w, playerId, randomFactor) ==
    IF w.gs.phase # "playing" \/ w.gs.currentTurnPlayerId # playerId THEN w
    ELSE setCurrentTurn(
            [w EXCEPT !.gs = [w.gs EXCEPT !.players[playerId].timeoutCount = @ + 1]],
            randomFactor)

\* handleTurnTimeout that does not compare currentTurnPlayerId with the
\* player the timer was armed for
handleTurnTimeoutAnyTurn(w, playerId, randomFactor) ==
    IF w.gs.phase # "playing" THEN w
    ELSE LET gs1 == [w.gs EXCEPT !.players[playerId].timeoutCount = @ + 1]
             nextIdx == getNextActivePlayerIndex(gs1, gs1.currentTurnIndex + 1)
         IN  IF nextIdx = -1
             THEN IF Len(gs1.boxesOpenedThisRound)
                        >= getBoxesToOpenForRound(gs1.currentRound)
                  THEN triggerBankerOffer([w EXCEPT !.gs = gs1], randomFactor)
                  ELSE [w EXCEPT !.gs = gs1]
             ELSE setCurrentTurn(
                    [w EXCEPT !.gs = [gs1 EXCEPT !.currentTurnIndex = nextIdx]],
                    randomFactor)

\* the turn timer armed for playerId fires
handleTurnTimeout(w, playerId, randomFactor) ==
    IF w.gs.phase # "playing" \/ w.gs.currentTurnPlayerId # playerId THEN w
    ELSE LET gs1 == [w.gs EXCEPT !.players[playerId].timeoutCount = @ + 1]
             nextIdx == getNextActivePlayerIndex(gs1, gs1.currentTurnIndex + 1)
         IN  IF nextIdx = -1
             THEN IF Len(gs1.boxesOpenedThisRound)
                        >= getBoxesToOpenForRound(gs1.currentRound)
                  THEN triggerBankerOffer([w EXCEPT !.gs = gs1], randomFactor)
                  ELSE [w EXCEPT !.gs = gs1]
             ELSE setCurrentTurn(
                    [w EXCEPT !.gs = [gs1 EXCEPT !.currentTurnIndex = nextIdx]],
                    randomFactor)

\* startNewRound that keeps the boxes opened in the round that ended
startNewRoundKeepsOpened(w, randomFactor) ==
    LET w1 == clearOfferTimer(clearTurnTimer(w))
        lastPlayer == getLastActivePlayer(w1.gs)
    IN  IF lastPlayer # Null THEN finishLastPlayer(w1, lastPlayer)
        ELSE setCurrentTurn(
                [w1 EXCEPT
                   !.gs = [w1.gs EXCEPT
                             !.currentRound = @ + 1,
                             !.phase = "playing",
                             !.currentOffer = Null,
                             !.offerExpiresAt = Null,
                             !.offerEligiblePlayerIds = <<>>,
                             !.offerResponses = << >>,
                             !.currentTurnPlayerId = Null,
                             !.turnExpiresAt = Null]],
                randomFactor)

startNewRound(w, randomFactor) ==
    LET w1 == clearOfferTimer(clearTurnTimer(w))
        lastPlayer == getLastActivePlayer(w1.gs)
    IN  IF lastPlayer # Null THEN finishLastPlayer(w1, lastPlayer)
        ELSE setCurrentTurn(
                [w1 EXCEPT
                   !.gs = [w1.gs EXCEPT
                             !.currentRound = @ + 1,
                             !.boxesOpenedThisRound = <<>>,
                             !.phase = "playing",
                             !.currentOffer = Null,
                             !.offerExpiresAt = Null,
                             !.offerEligiblePlayerIds = <<>>,
                             !.offerResponses = << >>,
                             !.currentTurnPlayerId = Null,
                             !.turnExpiresAt = Null]],
                randomFactor)

endOfferAndContinue(w, randomFactor) ==
    LET w1 == clearOfferTimer(w)
        lastPlayer == getLastActivePlayer(w1.gs)
    IN  IF checkGameEnd(w1.gs) THEN finishGame(w1)
        ELSE IF lastPlayer # Null THEN finishLastPlayer(w1, lastPlayer)
        ELSE startNewRound(w1, randomFactor)

\* offerResponses[playerId] = accepted
SetResponse(responses, playerId, accepted) ==
    [id \in DOMAIN responses \cup {playerId} |->
        IF id = playerId THEN accepted ELSE responses[id]]

RECURSIVE DefaultNoDealNoPenalty(_, _)
\* DefaultNoDeal that records No Deal without counting a timeout
DefaultNoDealNoPenalty(gs, eligible) ==
    IF eligible = <<>> THEN gs
    ELSE LET playerId == Head(eligible)
             gs1 == IF playerId \notin DOMAIN gs.offerResponses
                    THEN [gs EXCEPT !.offerResponses = SetResponse(@, playerId, FALSE)]
                    ELSE gs
         IN  DefaultNoDealNoPenalty(gs1, Tail(eligible))

RECURSIVE DefaultNoDeal(_, _)
\* eligible.forEach: No Deal and a timeout for every eligible non-responder
DefaultNoDeal(gs, eligible) ==
    IF eligible = <<>> THEN gs
    ELSE LET playerId == Head(eligible)
             gs1 == IF playerId \notin DOMAIN gs.offerResponses
                    THEN [gs EXCEPT
                            !.offerResponses = SetResponse(@, playerId, FALSE),
                            !.players[playerId].timeoutCount = @ + 1]
                    ELSE gs
         IN  DefaultNoDeal(gs1, Tail(eligible))

\* the offer timer fires
handleOfferTimeout(w, randomFactor) ==
    IF w.gs.phase # "offer" THEN w
    ELSE endOfferAndContinue(
            [w EXCEPT !.gs = DefaultNoDeal(w.gs, w.gs.offerEligiblePlayerIds)],
            randomFactor)

(* ------------------------- store/rooms.ts ------------------------------ *)
getPlayerIdFromSocket(socketId) == socketToPlayer[socketId]

\* joinRoomError without the limit on the number of contestants
joinRoomErrorNoLimit(gs, roomCode, password, asSpectator) ==
    LET role == IF asSpectator THEN "spectator" ELSE "player"
    IN  IF roomCode # RoomCode THEN "Room not found"
        ELSE IF gs.password # Null /\ gs.password # password THEN "Incorrect password"
        ELSE IF role = "player" /\ gs.phase # "waiting" THEN "Game already in progress"
        ELSE ""

\* joinRoomError that counts the contestants before it looks at the phase
joinRoomErrorFullFirst(gs, roomCode, password, asSpectator) ==
    LET role == IF asSpectator THEN "spectator" ELSE "player"
        playerCount == Cardinality({id \in PlayerIds(gs) : gs.players[id].role = "player"})
    IN  IF roomCode # RoomCode THEN "Room not found"
        ELSE IF gs.password # Null /\ gs.password # password THEN "Incorrect password"
        ELSE IF role = "player" /\ playerCount >= MAX_PLAYERS_PER_ROOM THEN "Room is full"
        ELSE IF role = "player" /\ gs.phase # "waiting" THEN "Game already in progress"
        ELSE ""

\* joinRoom(roomCode, socketId, playerName, {password, asSpectator}): the
\* error, or "" on success; a password is a number, Null when there is none
joinRoomError(gs, roomCode, password, asSpectator) ==
    LET role == IF asSpectator THEN "spectator" ELSE "player"
        playerCount == Cardinality({id \in PlayerIds(gs) : gs.players[id].role = "player"})
    IN  IF roomCode # RoomCode THEN "Room not found"
        ELSE IF gs.password # Null /\ gs.password # password THEN "Incorrect password"
        ELSE IF role = "player" /\ gs.phase # "waiting" THEN "Game already in progress"
        ELSE IF role = "player" /\ playerCount >= MAX_PLAYERS_PER_ROOM THEN "Room is full"
        ELSE ""

joinRoom(gs, socketId, asSpectator) ==
    [gs EXCEPT !.players =
        Append(@, NewPlayer(socketId, FALSE, IF asSpectator THEN "spectator" ELSE "player"))]

\* setRoomPassword(roomCode, password)
setRoomPassword(gs, password) == [gs EXCEPT !.password = password]

\* addChatMessage(message): push, and keep only the last 100 messages
addChatMessage(messages, message) ==
    LET pushed == Append(messages, message)
    IN  IF Len(pushed) > 100 THEN Tail(pushed) ELSE pushed

\* handleDisconnect that keeps the connection in the index
handleDisconnectKeepsIndex(gs, sockets, socketId) ==
    LET playerId == sockets[socketId]
    IN  IF playerId = Null THEN [gs |-> gs, socketToPlayer |-> sockets]
        ELSE [gs |-> [gs EXCEPT !.players[playerId].isConnected = FALSE],
              socketToPlayer |-> sockets]

\* handleDisconnect(socketId): the room and the connection index afterwards
handleDisconnect(gs, sockets, socketId) ==
    LET playerId == sockets[socketId]
    IN  IF playerId = Null THEN [gs |-> gs, socketToPlayer |-> sockets]
        ELSE [gs |-> [gs EXCEPT !.players[playerId].isConnected = FALSE],
              socketToPlayer |-> [sockets EXCEPT ![socketId] = Null]]

\* reconnectPlayer that binds the connection and leaves isConnected as it is
reconnectPlayerKeepsFlag(gs, sockets, playerId, newSocketId) ==
    IF playerId \notin PlayerIds(gs) THEN [gs |-> gs, socketToPlayer |-> sockets]
    ELSE [gs |-> [gs EXCEPT !.players[playerId].socketId = newSocketId],
          socketToPlayer |-> [sockets EXCEPT ![newSocketId] = playerId]]

\* reconnectPlayer(playerId, newSocketId): the room and the connection index
\* afterwards; unchanged when the player is not found
reconnectPlayer(gs, sockets, playerId, newSocketId) ==
    IF playerId \notin PlayerIds(gs) THEN [gs |-> gs, socketToPlayer |-> sockets]
    ELSE [gs |-> [gs EXCEPT
                    !.players[playerId].socketId = newSocketId,
                    !.players[playerId].isConnected = TRUE],
          socketToPlayer |-> [sockets EXCEPT ![newSocketId] = playerId]]

\* the cleanup TTLs, in hours
ROOM_WAITING_TTL_MS == 12
ROOM_SELECTION_TTL_MS == 12
ROOM_FINISHED_TTL_MS == 2

\* deleteRoom(code): the store without the room, its chat and the index
\* entries of the connections its players name; store is the record of
\* rooms, socketToPlayer and chatMessages
deleteRoom(store, gs) ==
    IF RoomCode \notin store.rooms THEN store
    ELSE [rooms |-> store.rooms \ {RoomCode},
          socketToPlayer |-> [s \in DOMAIN store.socketToPlayer |->
                IF \E id \in PlayerIds(gs) : gs.players[id].socketId = s
                THEN Null ELSE store.socketToPlayer[s]],
          chatMessages |-> << >>]

\* cleanupRooms that goes by the age of the room in every phase
cleanupRoomsAnyPhase(store, gs, time) ==
    IF RoomCode \notin store.rooms THEN store
    ELSE IF gs.phase = "finished"
    THEN LET finishedAge == IF gs.finishedAt # Null THEN time - gs.finishedAt
                            ELSE time - (IF gs.startedTime # Null THEN gs.startedTime
                                         ELSE gs.createdAt)
         IN  IF finishedAge > ROOM_FINISHED_TTL_MS THEN deleteRoom(store, gs) ELSE store
    ELSE IF time - gs.createdAt > ROOM_WAITING_TTL_MS THEN deleteRoom(store, gs)
    ELSE store

\* cleanupRooms(now): the store after the sweep at the given time
cleanupRooms(store, gs, time) ==
    IF RoomCode \notin store.rooms THEN store
    ELSE IF gs.phase = "finished"
    THEN LET finishedAge == IF gs.finishedAt # Null THEN time - gs.finishedAt
                            ELSE time - (IF gs.startedTime # Null THEN gs.startedTime
                                         ELSE gs.createdAt)
         IN  IF finishedAge > ROOM_FINISHED_TTL_MS THEN deleteRoom(store, gs) ELSE store
    ELSE IF gs.phase = "waiting"
    THEN IF time - gs.createdAt > ROOM_WAITING_TTL_MS THEN deleteRoom(store, gs) ELSE store
    ELSE IF gs.phase = "selection"
    THEN IF time - gs.createdAt > ROOM_SELECTION_TTL_MS THEN deleteRoom(store, gs) ELSE store
    ELSE store

(* ------------------------ game/constants.ts: names --------------------- *)
\* a name is a sequence of characters
BANNED_WORDS ==
    { << "f", "u", "c", "k" >>,
      << "s", "h", "i", "t" >>,
      << "b", "i", "t", "c", "h" >>,
      << "c", "u", "n", "t" >>,
      << "d", "i", "c", "k" >>,
      << "a", "s", "s" >>,
      << "b", "a", "s", "t", "a", "r", "d" >>,
      << "w", "a", "n", "k", "e", "r" >>,
      << "t", "w", "a", "t" >>,
      << "b", "o", "l", "l", "o", "c", "k", "s" >>,
      << "p", "r", "i", "c", "k" >>,
      << "n", "i", "g", "g", "e", "r" >>,
      << "f", "a", "g", "g", "o", "t" >>,
      << "r", "e", "t", "a", "r", "d" >> }

Vowels == {"a", "e", "i", "o", "u", "A", "E", "I", "O", "U"}

\* String.prototype.toLowerCase on the characters of the model
ToLowerCase(name) ==
    [i \in DOMAIN name |->
        CASE name[i] = "A" -> "a"
          [] name[i] = "S" -> "s"
          [] OTHER -> name[i]]

\* String.prototype.includes
Includes(name, word) ==
    \E i \in 1..(Len(name) - Len(word) + 1) : SubSeq(name, i, i + Len(word) - 1) = word

containsProfanity(name) == \E word \in BANNED_WORDS : Includes(ToLowerCase(name), word)

\* String.prototype.trim: the name without its leading and trailing blanks
Trim(name) ==
    LET inked == {i \in DOMAIN name : name[i] # " "}
    IN  IF inked = {} THEN << >>
        ELSE SubSeq(name, CHOOSE i \in inked : \A j \in inked : i <= j,
                          CHOOSE i \in inked : \A j \in inked : i >= j)

\* name.trim().slice(0, MAX_NAME_LENGTH), vowels replaced by asterisks when
\* the trimmed name contains a banned word
sanitiseName(name) ==
    LET trimmed == SubSeq(Trim(name), 1, Min(Len(Trim(name)), MaxNameLength))
    IN  IF containsProfanity(trimmed)
        THEN [i \in DOMAIN trimmed |-> IF trimmed[i] \in Vowels THEN "*" ELSE trimmed[i]]
        ELSE trimmed

(* ------------------------- event handlers ------------------------------ *)
\* the counters of the result stay within the bounds of the model
WithinBounds(w) ==
    /\ w.gs.currentRound <= MaxRound
    /\ w.gs.startedAt <= MaxStarts
    /\ SumSeq([id \in DOMAIN w.gs.players |-> w.gs.players[id].timeoutCount]) <= MaxTimeouts
    /\ w.gameEnded.count <= MaxGames
    /\ w.offerTriggers <= (IF Len(w.gs.boxes) = NumBoxes THEN MaxDelayed ELSE MaxLargeDelayed)

\* the acknowledgement of 'join-room': the error, or "" on success; the name
\* and the code are given by their trimmed lengths being zero or not
joinRoomAck(gs, nameGiven, roomCode, password, asSpectator) ==
    IF ~nameGiven THEN "Player name is required"
    ELSE IF roomCode = "" THEN "Room code is required"
    ELSE joinRoomError(gs, roomCode, password, asSpectator)

\* 'join-room': the room and the connection index after the event
joinRoomEvent(gs, sockets, socketId, nameGiven, roomCode, password, asSpectator) ==
    IF joinRoomAck(gs, nameGiven, roomCode, password, asSpectator) # ""
    THEN [gs |-> gs, socketToPlayer |-> sockets]
    ELSE [gs |-> joinRoom(gs, socketId, asSpectator),
          socketToPlayer |-> [sockets EXCEPT ![socketId] = Len(gs.players) + 1]]

JoinRoom(socketId, nameGiven, roomCode, password, asSpectator) ==
    LET joined == joinRoomEvent(gameState, socketToPlayer, socketId, nameGiven,
                                roomCode, password, asSpectator)
    IN  /\ gameState' = joined.gs
        /\ socketToPlayer' = joined.socketToPlayer
        /\ UNCHANGED << turnTimers, offerTimers, offerTriggers, globalLeaderboard,
                        gameEnded, chatMessages, rooms, now, agedTimers, timerRuns, orphanTimers, otherRoom,
                        playerName >>

\* 'select-box' without the check that the player has locked in
selectBoxAfterReady(gs, playerId, boxNumber) ==
    IF playerId = Null THEN gs
    ELSE IF gs.players[playerId].role # "player" THEN gs
    ELSE IF gs.phase # "waiting" /\ gs.phase # "selection" THEN gs
    ELSE IF boxNumber < 1 \/ boxNumber > Len(gs.boxes) THEN gs
    ELSE IF \E id \in PlayerIds(gs) :
                gs.players[id].boxNumber = boxNumber /\ id # playerId THEN gs
    ELSE [gs EXCEPT !.players[playerId].boxNumber = boxNumber]

selectBox(gs, playerId, boxNumber) ==
    IF playerId = Null THEN gs
    ELSE IF gs.players[playerId].role # "player" THEN gs
    ELSE IF gs.phase # "waiting" /\ gs.phase # "selection" THEN gs
    ELSE IF gs.players[playerId].isReady THEN gs
    ELSE IF boxNumber < 1 \/ boxNumber > Len(gs.boxes) THEN gs
    ELSE IF \E id \in PlayerIds(gs) :
                gs.players[id].boxNumber = boxNumber /\ id # playerId THEN gs
    ELSE [gs EXCEPT !.players[playerId].boxNumber = boxNumber]

SelectBox(socketId, boxNumber) ==
    /\ gameState' = selectBox(gameState, getPlayerIdFromSocket(socketId), boxNumber)
    /\ UNCHANGED << turnTimers, offerTimers, offerTriggers, socketToPlayer,
                    globalLeaderboard, gameEnded, chatMessages, rooms, now, agedTimers, timerRuns, orphanTimers, otherRoom,
                    playerName >>

playerReady(gs, playerId) ==
    IF playerId = Null THEN gs
    ELSE IF gs.players[playerId].boxNumber = Null \/ gs.players[playerId].role # "player"
    THEN gs
    ELSE [gs EXCEPT !.players[playerId].isReady = TRUE]

PlayerReady(socketId) ==
    /\ gameState' = playerReady(gameState, getPlayerIdFromSocket(socketId))
    /\ UNCHANGED << turnTimers, offerTimers, offerTriggers, socketToPlayer,
                    globalLeaderboard, gameEnded, chatMessages, rooms, now, agedTimers, timerRuns, orphanTimers, otherRoom,
                    playerName >>

\* startIndex is Math.floor(Math.random() * turnOrder.length)
startGame(w, playerId, startIndex, randomFactor) ==
    LET gs == w.gs
        turnOrder == ContestantIds(gs)
    IN  IF playerId = Null THEN w
        ELSE IF gs.hostId # playerId THEN w
        ELSE IF ~allPlayersReady(gs) THEN w
        ELSE setCurrentTurn(
                [w EXCEPT !.gs =
                    [gs EXCEPT
                       !.players = [id \in DOMAIN gs.players |->
                            IF gs.players[id].boxNumber # Null
                               /\ gs.players[id].role = "player"
                               /\ gs.players[id].boxNumber \in DOMAIN gs.boxes
                            THEN [gs.players[id] EXCEPT
                                    !.boxValue = gs.boxes[gs.players[id].boxNumber].value]
                            ELSE gs.players[id]],
                       !.phase = "playing",
                       !.currentRound = 1,
                       !.startedAt = @ + 1,
                       !.startedTime = w.now,
                       !.turnOrder = turnOrder,
                       !.currentTurnIndex = startIndex,
                       !.offerEligiblePlayerIds = <<>>,
                       !.offerResponses = << >>]],
                randomFactor)

StartGame(socketId, startIndex, randomFactor) ==
    \E w \in {startGame(World, getPlayerIdFromSocket(socketId), startIndex, randomFactor)} :
        /\ WithinBounds(w)
        /\ Commit(w)
        /\ UNCHANGED << socketToPlayer, chatMessages >>

\* the early returns of 'open-box', with the turn check left out
openBoxRejectedAnyTurn(gs, playerId, boxNumber) ==
    \/ playerId = Null
    \/ gs.phase # "playing"
    \/ gs.players[playerId].hasDealt \/ gs.players[playerId].role # "player"
    \/ Len(gs.boxesOpenedThisRound) >= getBoxesToOpenForRound(gs.currentRound)
    \/ boxNumber \notin DOMAIN gs.boxes
    \/ gs.boxes[boxNumber].isOpened
    \/ \E id \in PlayerIds(gs) : gs.players[id].boxNumber = boxNumber

\* the early returns of 'open-box', with the box-owner check left out
openBoxRejectedOwned(gs, playerId, boxNumber) ==
    \/ playerId = Null
    \/ gs.phase # "playing"
    \/ gs.currentTurnPlayerId # playerId
    \/ gs.players[playerId].hasDealt \/ gs.players[playerId].role # "player"
    \/ Len(gs.boxesOpenedThisRound) >= getBoxesToOpenForRound(gs.currentRound)
    \/ boxNumber \notin DOMAIN gs.boxes
    \/ gs.boxes[boxNumber].isOpened

\* the early returns of 'open-box'
openBoxRejected(gs, playerId, boxNumber) ==
    \/ playerId = Null
    \/ gs.phase # "playing"
    \/ gs.currentTurnPlayerId # playerId
    \/ gs.players[playerId].hasDealt \/ gs.players[playerId].role # "player"
    \/ Len(gs.boxesOpenedThisRound) >= getBoxesToOpenForRound(gs.currentRound)
    \/ boxNumber \notin DOMAIN gs.boxes
    \/ gs.boxes[boxNumber].isOpened
    \/ \E id \in PlayerIds(gs) : gs.players[id].boxNumber = boxNumber

openBox(w, playerId, boxNumber) ==
    LET gs == w.gs
        boxesToOpenForThisRound == getBoxesToOpenForRound(gs.currentRound)
    IN  IF openBoxRejected(gs, playerId, boxNumber) THEN w
        ELSE LET w1 == clearTurnTimer(w)
                 gs1 == [RevealBox(gs, boxNumber, playerId) EXCEPT
                           !.boxesOpenedThisRound = Append(@, boxNumber)]
                 roundComplete ==
                    \/ Len(gs1.boxesOpenedThisRound) >= boxesToOpenForThisRound
                    \/ ~hasOpenableBoxes(gs1)
                 nextIdx == getNextActivePlayerIndex(gs1, gs1.currentTurnIndex + 1)
             IN  IF roundComplete
                 THEN [w1 EXCEPT
                         !.gs = [gs1 EXCEPT
                                   !.currentTurnIndex = IF nextIdx # -1 THEN nextIdx ELSE @,
                                   !.currentTurnPlayerId = Null,
                                   !.turnExpiresAt = Null],
                         !.offerTriggers = @ + 1]
                 ELSE IF nextIdx # -1
                      THEN \* an openable box is left here (roundComplete is false),
                           \* so setCurrentTurn arms a turn and draws no random number
                           setCurrentTurn(
                             [w1 EXCEPT !.gs = [gs1 EXCEPT !.currentTurnIndex = nextIdx]],
                             100)
                      ELSE [w1 EXCEPT !.gs = gs1]

OpenBox(socketId, boxNumber) ==
    \E w \in {openBox(World, getPlayerIdFromSocket(socketId), boxNumber)} :
        /\ WithinBounds(w)
        /\ Commit(w)
        /\ UNCHANGED << socketToPlayer, chatMessages >>

\* legacy 'open-boxes': the same steps for payload.boxNumbers[0]
OpenBoxes(socketId, boxNumbers) ==
    \E w \in {IF Len(boxNumbers) > 0
             THEN openBox(World, getPlayerIdFromSocket(socketId), boxNumbers[1])
             ELSE World} :
        /\ WithinBounds(w)
        /\ Commit(w)
        /\ UNCHANGED << socketToPlayer, chatMessages >>

\* the accepted branch of 'deal-response' that leaves turnOrder as it is
AcceptDealKeepsTurn(gs, playerId) ==
    LET player == gs.players[playerId]
        points == calculatePoints(gs.currentOffer, OrZero(player.boxValue),
                                  gs.currentRound, FALSE, FALSE, player.timeoutCount)
        gs1 == [gs EXCEPT
                  !.players[playerId].hasDealt = TRUE,
                  !.players[playerId].dealAmount = gs.currentOffer,
                  !.players[playerId].roundDealt = gs.currentRound,
                  !.players[playerId].isLastStanding = FALSE,
                  !.players[playerId].points = points]
    IN  IF player.boxNumber \in DOMAIN gs.boxes
           /\ ~gs.boxes[player.boxNumber].isOpened
        THEN RevealBox(gs1, player.boxNumber, playerId)
        ELSE gs1

\* the accepted branch of 'deal-response' that also steps currentTurnIndex
\* back when the player removed was at currentTurnIndex itself
AcceptDealAtOrBelow(gs, playerId) ==
    LET gs2 == AcceptDealKeepsTurn(gs, playerId)
        turnIdx == IndexOf(gs2.turnOrder, playerId) - 1
    IN  IF turnIdx > -1
        THEN [gs2 EXCEPT
                !.turnOrder = RemoveAt(@, turnIdx + 1),
                !.currentTurnIndex = IF turnIdx <= @ THEN Max(0, @ - 1) ELSE @]
        ELSE gs2

\* the accepted branch of 'deal-response'
AcceptDeal(gs, playerId) ==
    LET player == gs.players[playerId]
        points == calculatePoints(gs.currentOffer, OrZero(player.boxValue),
                                  gs.currentRound, FALSE, FALSE, player.timeoutCount)
        gs1 == [gs EXCEPT
                  !.players[playerId].hasDealt = TRUE,
                  !.players[playerId].dealAmount = gs.currentOffer,
                  !.players[playerId].roundDealt = gs.currentRound,
                  !.players[playerId].isLastStanding = FALSE,
                  !.players[playerId].points = points]
        gs2 == IF player.boxNumber \in DOMAIN gs.boxes
                  /\ ~gs.boxes[player.boxNumber].isOpened
               THEN RevealBox(gs1, player.boxNumber, playerId)
               ELSE gs1
        turnIdx == IndexOf(gs2.turnOrder, playerId) - 1
    IN  IF turnIdx > -1
        THEN [gs2 EXCEPT
                !.turnOrder = RemoveAt(@, turnIdx + 1),
                !.currentTurnIndex = IF turnIdx < @ THEN Max(0, @ - 1) ELSE @]
        ELSE gs2

\* the early returns of 'deal-response', with the one-response check left out
dealResponseRejectedTwice(gs, playerId) ==
    \/ playerId = Null
    \/ gs.phase # "offer"
    \/ gs.players[playerId].hasDealt \/ gs.players[playerId].role # "player"
    \/ playerId \notin Range(gs.offerEligiblePlayerIds)

\* the early returns of 'deal-response'
dealResponseRejected(gs, playerId) ==
    \/ playerId = Null
    \/ gs.phase # "offer"
    \/ gs.players[playerId].hasDealt \/ gs.players[playerId].role # "player"
    \/ playerId \in DOMAIN gs.offerResponses
    \/ playerId \notin Range(gs.offerEligiblePlayerIds)

\* 'deal-response' that ends the offer as soon as one contestant accepts
dealResponseEndsOnAccept(w, playerId, accepted, randomFactor) ==
    LET gs == w.gs
    IN  IF dealResponseRejected(gs, playerId) THEN w
        ELSE LET gs1 == [gs EXCEPT !.offerResponses = SetResponse(@, playerId, accepted)]
                 gs2 == IF accepted /\ gs1.currentOffer # Null
                        THEN AcceptDeal(gs1, playerId)
                        ELSE gs1
                 allResponded == \A pid \in Range(gs2.offerEligiblePlayerIds) :
                                    pid \in DOMAIN gs2.offerResponses
             IN  IF allResponded \/ accepted
                 THEN endOfferAndContinue([w EXCEPT !.gs = gs2], randomFactor)
                 ELSE [w EXCEPT !.gs = gs2]

dealResponse(w, playerId, accepted, randomFactor) ==
    LET gs == w.gs
    IN  IF dealResponseRejected(gs, playerId) THEN w
        ELSE LET gs1 == [gs EXCEPT !.offerResponses = SetResponse(@, playerId, accepted)]
                 gs2 == IF accepted /\ gs1.currentOffer # Null
                        THEN AcceptDeal(gs1, playerId)
                        ELSE gs1
                 allResponded == \A pid \in Range(gs2.offerEligiblePlayerIds) :
                                    pid \in DOMAIN gs2.offerResponses
             IN  IF allResponded
                 THEN endOfferAndContinue([w EXCEPT !.gs = gs2], randomFactor)
                 ELSE [w EXCEPT !.gs = gs2]

DealResponse(socketId, accepted, randomFactor) ==
    \E w \in {dealResponse(World, getPlayerIdFromSocket(socketId), accepted, randomFactor)} :
        /\ WithinBounds(w)
        /\ Commit(w)
        /\ UNCHANGED << socketToPlayer, chatMessages >>

\* 'set-room-password': password is the trimmed payload, Null when it is null
\* or blank
setRoomPasswordEvent(gs, playerId, password) ==
    IF playerId = Null THEN gs
    ELSE IF gs.hostId # playerId THEN gs
    ELSE IF gs.phase # "waiting" THEN gs
    ELSE setRoomPassword(gs, password)

SetRoomPassword(socketId, password) ==
    /\ gameState' = setRoomPasswordEvent(gameState, getPlayerIdFromSocket(socketId), password)
    /\ UNCHANGED << turnTimers, offerTimers, offerTriggers, socketToPlayer,
                    globalLeaderboard, gameEnded, chatMessages, rooms, now, agedTimers, timerRuns, orphanTimers, otherRoom,
                    playerName >>

\* 'chat-message' that lets spectators chat
chatMessageFromAnyone(gs, messages, playerId, contentLength) ==
    IF playerId = Null THEN messages
    ELSE addChatMessage(messages,
            [senderId |-> playerId, contentLength |-> Min(contentLength, 500)])

\* 'chat-message': the history after the event; the content is given by its
\* length, cut to 500 characters
chatMessage(gs, messages, playerId, contentLength) ==
    IF playerId = Null THEN messages
    ELSE IF gs.players[playerId].role = "spectator" THEN messages
    ELSE addChatMessage(messages,
            [senderId |-> playerId, contentLength |-> Min(contentLength, 500)])

ChatMessage(socketId, contentLength) ==
    /\ Len(chatMessages) < MaxChat
    /\ chatMessages' = chatMessage(gameState, chatMessages,
                                   getPlayerIdFromSocket(socketId), contentLength)
    /\ UNCHANGED << gameState, turnTimers, offerTimers, offerTriggers, socketToPlayer,
                    globalLeaderboard, gameEnded, rooms, now, agedTimers, timerRuns, orphanTimers, otherRoom,
                        playerName >>

(* ------------------------------ timers --------------------------------- *)
TurnTimeout(randomFactor) ==
    /\ turnTimers # Null
    /\ \E w \in {handleTurnTimeout([World EXCEPT !.turnTimers = Null], turnTimers, randomFactor)} :
            WithinBounds(w) /\ Commit(w)
    /\ UNCHANGED << socketToPlayer, chatMessages >>

OfferTimeout(randomFactor) ==
    /\ offerTimers
    /\ \E w \in {handleOfferTimeout([World EXCEPT !.offerTimers = FALSE], randomFactor)} :
            WithinBounds(w) /\ Commit(w)
    /\ UNCHANGED << socketToPlayer, chatMessages >>

\* setTimeout(() => triggerBankerOffer(io, room.code), 1500) comes due
OfferTrigger(randomFactor) ==
    /\ offerTriggers > 0
    /\ \E w \in {triggerBankerOffer([World EXCEPT !.offerTriggers = @ - 1, !.aged = @ \ {"trigger"}], randomFactor)} :
            WithinBounds(w) /\ Commit(w)
    /\ UNCHANGED << socketToPlayer, chatMessages >>

(* ------------------- connections, clock and sweep --------------------- *)
\* 'disconnect'
Disconnect(socketId) ==
    LET left == handleDisconnect(gameState, socketToPlayer, socketId)
    IN  /\ gameState' = left.gs
        /\ socketToPlayer' = left.socketToPlayer
        /\ UNCHANGED << turnTimers, offerTimers, offerTriggers, globalLeaderboard,
                        gameEnded, chatMessages, rooms, now, agedTimers, timerRuns, orphanTimers, otherRoom,
                        playerName >>

\* the acknowledgement of 'reconnect-player': the error, or "" on success
reconnectPlayerAck(gs, playerId) ==
    IF playerId \in PlayerIds(gs) THEN "" ELSE "Player not found"

\* 'reconnect-player' with payload.playerId, sent on connection socketId
ReconnectPlayer(socketId, playerId) ==
    LET back == reconnectPlayer(gameState, socketToPlayer, playerId, socketId)
    IN  /\ gameState' = back.gs
        /\ socketToPlayer' = back.socketToPlayer
        /\ UNCHANGED << turnTimers, offerTimers, offerTriggers, globalLeaderboard,
                        gameEnded, chatMessages, rooms, now, agedTimers, timerRuns, orphanTimers, otherRoom,
                        playerName >>

\* the store as deleteRoom and cleanupRooms see it
Store == [rooms |-> rooms, socketToPlayer |-> socketToPlayer, chatMessages |-> chatMessages]

\* the periodic sweep: cleanupRooms() at Date.now(); the timers of a deleted
\* room are not cancelled
CleanupRooms ==
    LET swept == cleanupRooms(Store, gameState, now)
    IN  /\ rooms' = swept.rooms
        /\ socketToPlayer' = swept.socketToPlayer
        /\ chatMessages' = swept.chatMessages
        /\ UNCHANGED << gameState, turnTimers, offerTimers, offerTriggers,
                        globalLeaderboard, gameEnded, now, agedTimers, timerRuns, orphanTimers, otherRoom,
                        playerName >>

\* the clock passes into a later hour. Every timer of the engine runs for less
\* than an hour (20 s, 20 s and 1.5 s), so a pending timer sees the hour change
\* at most once: the clock moves on by one hour when no pending timer has seen
\* a change yet, and by more only when no timer is pending.
Tick(hours) ==
    /\ now + hours <= MaxNow
    /\ IF hours = 1
       THEN PendingTimers(World) # {} /\ agedTimers = {}
       ELSE PendingTimers(World) = {}
    /\ now' = now + hours
    /\ agedTimers' = PendingTimers(World)
    /\ UNCHANGED << gameState, turnTimers, offerTimers, offerTriggers, socketToPlayer,
                    globalLeaderboard, gameEnded, chatMessages, rooms, timerRuns, orphanTimers, otherRoom,
                    playerName >>

\* createRoom and joinRoom store sanitiseName(name) as the name of the player
SanitiseName ==
    /\ playerName' = sanitiseName(playerName)
    /\ UNCHANGED << gameState, turnTimers, offerTimers, offerTriggers, socketToPlayer,
                    globalLeaderboard, gameEnded, chatMessages, rooms, now, agedTimers, timerRuns,
                    orphanTimers, otherRoom >>

(* --------------------------- specification ----------------------------- *)
SelectInputs == (0..MaxSelectBox) \cup {NumBoxes + 1}

IsOpenable(gs, b) ==
    /\ b \in DOMAIN gs.boxes
    /\ ~gs.boxes[b].isOpened
    /\ \A id \in PlayerIds(gs) : gs.players[id].boxNumber # b

OpenInputs ==
    {b \in 0..(NumBoxes + 1) :
        \/ b \notin DOMAIN gameState.boxes
        \/ \E id \in PlayerIds(gameState) : gameState.players[id].boxNumber = b
        \/ /\ gameState.boxes[b].isOpened
           /\ \A c \in 1..(b - 1) : ~gameState.boxes[c].isOpened
        \/ /\ IsOpenable(gameState, b)
           /\ Cardinality({c \in 1..(b - 1) : IsOpenable(gameState, c)}) < MaxOpenChoice}

\* connections join in the order of their numbers, each once
JoinSockets ==
    {s \in Sockets :
        /\ Len(gameState.players) < MaxPlayers
        /\ socketToPlayer[s] = Null
        /\ \A t \in 1..(s - 1) : socketToPlayer[t] # Null}

\* the connections that joined, and the first one that did not
Senders ==
    {s \in Sockets : \A t \in 1..(s - 1) : socketToPlayer[t] # Null}

StartIndexes == 0..Max(0, Len(ContestantIds(gameState)) - 1)

Next ==
    \/ \E s \in JoinSockets, sp \in BOOLEAN : JoinRoom(s, TRUE, RoomCode, Null, sp)
    \/ \E s \in Senders, b \in SelectInputs : SelectBox(s, b)
    \/ \E s \in Senders : PlayerReady(s)
    \/ \E s \in Senders, i \in StartIndexes, rf \in RandomFactors : StartGame(s, i, rf)
    \/ \E s \in Senders, b \in OpenInputs : OpenBox(s, b)
    \/ \E s \in Senders, b \in OpenInputs : OpenBoxes(s, << b >>)
    \/ \E s \in Senders : OpenBoxes(s, << >>)
    \/ \E s \in Senders, a \in BOOLEAN, rf \in RandomFactors : DealResponse(s, a, rf)
    \/ \E rf \in RandomFactors : TurnTimeout(rf)
    \/ \E rf \in RandomFactors : OfferTimeout(rf)
    \/ \E rf \in RandomFactors : OfferTrigger(rf)

Spec == Init /\ [][Next]_vars

(* ----------------- specification: three contestants ------------------- *)
\* the same room with three connections joining as contestants, connection s
\* selecting box s, and every contestant acting within the deadlines
Next3 ==
    \/ \E s \in JoinSockets : JoinRoom(s, TRUE, RoomCode, Null, FALSE)
    \/ \E s \in Senders : SelectBox(s, s)
    \/ \E s \in Senders : PlayerReady(s)
    \/ \E s \in Senders, i \in StartIndexes, rf \in RandomFactors : StartGame(s, i, rf)
    \/ \E s \in Senders, b \in OpenInputs : OpenBox(s, b)
    \/ \E s \in Senders, a \in BOOLEAN, rf \in RandomFactors : DealResponse(s, a, rf)
    \/ \E rf \in RandomFactors : OfferTrigger(rf)

Spec3 == Init /\ [][Next3]_vars

(* -------------------- specification: the lobby ------------------------- *)
\* the payloads of 'join-room': name and code present or blank, the code of
\* the room or of no room, no password or one of two
JoinCodes == {"", RoomCode, NoRoomCode}
Passwords == {Null, 1, 2}

\* the player of connection s will not act in the lobby any more
Settled(s) ==
    \/ socketToPlayer[s] = Null
    \/ gameState.players[socketToPlayer[s]].role = "spectator"
    \/ gameState.players[socketToPlayer[s]].isReady

\* connections join in the order of their numbers; the last connection joins
\* again, as a new player, once its player is settled
LobbyJoinSockets ==
    {s \in Sockets :
        /\ Len(gameState.players) < MaxJoined
        /\ \A t \in 1..(s - 1) : socketToPlayer[t] # Null
        /\ IF s = MaxSockets THEN Settled(s) ELSE socketToPlayer[s] = Null}

\* each player selects the box of their own number
OwnBox(s) == IF socketToPlayer[s] = Null THEN 0 ELSE socketToPlayer[s]

\* the payloads of 'open-box': no box, or the lowest-numbered openable box
LobbyOpenInputs ==
    {b \in 0..NumBoxes :
        \/ b = 0
        \/ IsOpenable(gameState, b) /\ \A c \in 1..(b - 1) : ~IsOpenable(gameState, c)}

\* the room with a password, up to MaxJoined player records, chat, and one
\* game started from the lobby and played within the deadlines, the banker
\* drawing the lowest random factor
NextLobby ==
    \/ \E s \in LobbyJoinSockets, n \in BOOLEAN, c \in JoinCodes, pw \in Passwords, sp \in BOOLEAN :
          JoinRoom(s, n, c, pw, sp)
    \/ \E s \in Sockets, pw \in {Null, 1} : SetRoomPassword(s, pw)
    \/ \E s \in Sockets : SelectBox(s, OwnBox(s))
    \/ \E s \in Sockets : PlayerReady(s)
    \/ \E s \in Sockets : gameState.startedAt = 0 /\ StartGame(s, 0, 90)
    \/ \E s \in Sockets, b \in LobbyOpenInputs : OpenBox(s, b)
    \/ \E s \in Sockets, a \in BOOLEAN : DealResponse(s, a, 90)
    \/ OfferTrigger(90)
    \/ \E s \in Sockets : ChatMessage(s, 501)

\* the boxes hold the ladder in order
InitLobby == Init /\ gameState = createRoom(0)

SpecLobby == InitLobby /\ [][NextLobby]_vars

(* ------------------ specification: connections ------------------------ *)
\* the room is in the store: the handlers and timers of a room that is not
\* return at the lookup of the room
InStore == RoomCode \in rooms

\* the first MaxResidents connections join, in the order of their numbers;
\* the others are connections to reconnect on
StoreJoinSockets ==
    {s \in 1..MaxResidents :
        /\ Len(gameState.players) < MaxResidents
        /\ socketToPlayer[s] = Null
        /\ \A t \in 1..(s - 1) : socketToPlayer[t] # Null}

\* the connections on which 'reconnect-player' is sent
NewSockets == (MaxResidents + 1)..MaxSockets

\* the playerId of a 'reconnect-player' payload: a player of the room, or the
\* id of no player
ReconnectIds == 1..(Len(gameState.players) + 1)

\* the room with two contestants whose connections drop and come back on any
\* connection, and one game with its deadlines
NextConn ==
    \/ \E s \in StoreJoinSockets : JoinRoom(s, TRUE, RoomCode, Null, FALSE)
    \/ \E s \in Sockets : SelectBox(s, OwnBox(s))
    \/ \E s \in Sockets : PlayerReady(s)
    \/ \E s \in Sockets : gameState.startedAt = 0 /\ StartGame(s, 0, 90)
    \/ \E s \in Sockets, b \in LobbyOpenInputs : OpenBox(s, b)
    \/ \E s \in Sockets, a \in BOOLEAN : DealResponse(s, a, 90)
    \/ TurnTimeout(90)
    \/ OfferTimeout(90)
    \/ OfferTrigger(90)
    \/ \E s \in Sockets : Disconnect(s)
    \/ \E s \in NewSockets, id \in ReconnectIds : ReconnectPlayer(s, id)

SpecConn == InitLobby /\ [][NextConn]_vars

(* ------------------ specification: the room store ---------------------- *)
\* the hours by which the clock moves on
TickHours == {1, 3, 12}

\* the host sends 'start-game' in the lobby, and again while a delayed offer
\* is pending
StartsHere == gameState.startedAt = 0 \/ offerTriggers > 0

\* the room with two contestants, its games with their deadlines, the clock
\* and the periodic sweep
NextStore ==
    \/ \E s \in StoreJoinSockets : InStore /\ JoinRoom(s, TRUE, RoomCode, Null, FALSE)
    \/ \E s \in Sockets : InStore /\ SelectBox(s, OwnBox(s))
    \/ \E s \in Sockets : InStore /\ PlayerReady(s)
    \/ \E s \in Sockets : InStore /\ StartsHere /\ StartGame(s, 0, 90)
    \/ \E s \in Sockets, b \in LobbyOpenInputs : InStore /\ OpenBox(s, b)
    \/ \E s \in Sockets, a \in BOOLEAN : InStore /\ DealResponse(s, a, 90)
    \/ InStore /\ TurnTimeout(90)
    \/ InStore /\ OfferTimeout(90)
    \/ InStore /\ OfferTrigger(90)
    \/ \E hours \in TickHours : Tick(hours)
    \/ CleanupRooms

SpecStore == InitLobby /\ [][NextStore]_vars

(* --------------------- specification: names ---------------------------- *)
\* the characters of the names of the payloads
NameChars == {"a", "A", "s", " "}

Names == UNION { [1..n -> NameChars] : n \in 0..MaxNameInput }

InitNames == InitRoom /\ gameState = createRoom(0) /\ playerName \in Names

SpecNames == InitNames /\ [][SanitiseName]_vars

(* ------------------- specification: two rooms -------------------------- *)
\* the playerId of the i-th player of the second room
OtherPlayerId(i) == 0 - (i + 1)

\* playerId is the id of a player of the second room
IsOtherPlayer(other, playerId) ==
    \E i \in DOMAIN other.sockets : playerId = OtherPlayerId(i)

\* createRoom(hostSocketId, hostName) for the second room of the store
createOtherRoom(store, socketId, time) ==
    [ store |-> [store EXCEPT
                   !.rooms = @ \cup {OtherCode},
                   !.socketToPlayer[socketId] = OtherPlayerId(1)],
      other |-> [createdAt |-> time, sockets |-> << socketId >>] ]

\* joinRoom(code of the second room, socketId, name)
joinOtherRoom(store, other, socketId) ==
    IF OtherCode \notin store.rooms THEN [store |-> store, other |-> other]
    ELSE [ store |-> [store EXCEPT
                        !.socketToPlayer[socketId] = OtherPlayerId(Len(other.sockets) + 1)],
           other |-> [other EXCEPT !.sockets = Append(@, socketId)] ]

\* deleteRoom(code of the second room)
deleteOtherRoom(store, other) ==
    IF OtherCode \notin store.rooms THEN [store |-> store, other |-> other]
    ELSE [ store |-> [store EXCEPT
                        !.rooms = @ \ {OtherCode},
                        !.socketToPlayer = [s \in DOMAIN @ |->
                            IF s \in Range(other.sockets) THEN Null ELSE @[s]]],
           other |-> NoOtherRoom ]

\* cleanupRooms(now) over both rooms, in the order of their creation; the
\* second room stays in the waiting phase
cleanupAllRooms(store, gs, other, time) ==
    LET swept == cleanupRooms(store, gs, time)
    IN  IF OtherCode \in swept.rooms /\ time - other.createdAt > ROOM_WAITING_TTL_MS
        THEN deleteOtherRoom(swept, other)
        ELSE [store |-> swept, other |-> other]

\* getRoomByPlayerId(getPlayerIdFromSocket(socketId)): the code of the room
\* the connection resolves to, or NoRoomCode
RoomOfSocket(store, other, socketId) ==
    LET playerId == store.socketToPlayer[socketId]
    IN  IF playerId = Null THEN NoRoomCode
        ELSE IF IsOtherPlayer(other, playerId)
        THEN (IF OtherCode \in store.rooms THEN OtherCode ELSE NoRoomCode)
        ELSE IF RoomCode \in store.rooms THEN RoomCode ELSE NoRoomCode

\* 'create-room' on connection socketId, while the second room is not in the
\* store
CreateOtherRoom(socketId) ==
    /\ OtherCode \notin rooms
    /\ LET made == createOtherRoom(Store, socketId, now)
       IN  /\ rooms' = made.store.rooms
           /\ socketToPlayer' = made.store.socketToPlayer
           /\ otherRoom' = made.other
    /\ UNCHANGED << gameState, turnTimers, offerTimers, offerTriggers, globalLeaderboard,
                    gameEnded, chatMessages, now, agedTimers, timerRuns, orphanTimers,
                    playerName >>

\* 'join-room' with the code of the second room on connection socketId
JoinOtherRoom(socketId) ==
    /\ OtherCode \in rooms
    /\ Len(otherRoom.sockets) < MaxResidents
    /\ LET joined == joinOtherRoom(Store, otherRoom, socketId)
       IN  /\ socketToPlayer' = joined.store.socketToPlayer
           /\ otherRoom' = joined.other
    /\ UNCHANGED << gameState, turnTimers, offerTimers, offerTriggers, globalLeaderboard,
                    gameEnded, chatMessages, rooms, now, agedTimers, timerRuns,
                    orphanTimers, playerName >>

\* the periodic sweep over both rooms: cleanupRooms() at Date.now()
SweepRooms ==
    LET swept == cleanupAllRooms(Store, gameState, otherRoom, now)
    IN  /\ rooms' = swept.store.rooms
        /\ socketToPlayer' = swept.store.socketToPlayer
        /\ chatMessages' = swept.store.chatMessages
        /\ otherRoom' = swept.other
        /\ UNCHANGED << gameState, turnTimers, offerTimers, offerTriggers,
                        globalLeaderboard, gameEnded, now, agedTimers, timerRuns,
                        orphanTimers, playerName >>

\* the connections that can join the first room
RoomJoinSockets == {s \in Sockets : InStore /\ Len(gameState.players) < MaxPlayers}

\* two rooms in their lobbies: connections create and join them in any order,
\* also one connection both; the clock moves on and the sweep runs
NextRooms ==
    \/ \E s \in RoomJoinSockets : JoinRoom(s, TRUE, RoomCode, Null, FALSE)
    \/ \E s \in Sockets : CreateOtherRoom(s)
    \/ \E s \in Sockets : JoinOtherRoom(s)
    \/ \E hours \in TickHours \ {1} : Tick(hours)
    \/ SweepRooms

SpecRooms == InitLobby /\ [][NextRooms]_vars

(* ----------------- specification: the larger room -------------------- *)
\* the values of a room of NumLargeBoxes boxes: the lowest of BOX_VALUES
LargeLadder == SubSeq(BOX_VALUES, 1, NumLargeBoxes)

\* its boxes, in ladder order
LargeBoxes ==
    [i \in 1..NumLargeBoxes |->
        [value |-> BOX_VALUES[i], isOpened |-> FALSE, openedByPlayerId |-> Null]]

\* the room and the store after createRoom, with NumLargeBoxes boxes
InitLarge ==
    /\ gameState = [createRoom(0) EXCEPT !.boxes = LargeBoxes, !.remainingValues = LargeLadder]
    /\ turnTimers = Null
    /\ offerTimers = FALSE
    /\ offerTriggers = 0
    /\ socketToPlayer = [s \in Sockets |-> IF s = 1 THEN 1 ELSE Null]
    /\ globalLeaderboard = << >>
    /\ gameEnded = [count |-> 0, leaderboard |-> <<>>]
    /\ chatMessages = << >>
    /\ rooms = {RoomCode}
    /\ now = 1
    /\ agedTimers = {}
    /\ timerRuns = [timer |-> "none", flip |-> FALSE]
    /\ orphanTimers = 0
    /\ otherRoom = NoOtherRoom
    /\ playerName = << >>

\* the payloads of 'open-box': no box, or the lowest-numbered openable box
LargeOpenInputs ==
    {b \in {0} \cup DOMAIN gameState.boxes :
        \/ b = 0
        \/ IsOpenable(gameState, b) /\ \A c \in 1..(b - 1) : ~IsOpenable(gameState, c)}

\* up to MaxPlayers contestants, the games of the room with their deadlines,
\* the host sending 'start-game' at any time, the banker drawing the lowest
\* factor
NextLarge ==
    \/ \E s \in JoinSockets : JoinRoom(s, TRUE, RoomCode, Null, FALSE)
    \/ \E s \in Sockets : SelectBox(s, OwnBox(s))
    \/ \E s \in Sockets : PlayerReady(s)
    \/ \E s \in Sockets : StartGame(s, 0, 90)
    \/ \E s \in Sockets, b \in LargeOpenInputs : OpenBox(s, b)
    \/ \E s \in Sockets, a \in BOOLEAN : DealResponse(s, a, 90)
    \/ TurnTimeout(90)
    \/ OfferTimeout(90)
    \/ OfferTrigger(90)

SpecLarge == InitLarge /\ [][NextLarge]_vars

(* ------------------ specification: timers that fire -------------------- *)
\* timeoutCount counts the missed deadlines of a player up to MaxTimeouts and
\* stays there, and the count of 'game-ended' broadcasts stays at MaxGames, so
\* that no timer is ever kept from firing
SaturateCounters(w) ==
    [w EXCEPT
        !.gs.players = [id \in DOMAIN @ |->
                            [@[id] EXCEPT !.timeoutCount = Min(@, MaxTimeouts)]],
        !.gameEnded.count = Min(@, MaxGames)]

\* the callback of the named timer has run
Ran(timer) == [timer |-> timer, flip |-> ~timerRuns.flip]

\* an offer of round MaxRound is left open: no round after MaxRound is started
RoundsLeft == gameState.phase = "offer" => gameState.currentRound < MaxRound

\* the timers run their callbacks
TurnTimerFires ==
    /\ turnTimers # Null
    /\ \E w \in {SaturateCounters(handleTurnTimeout(
                    [World EXCEPT !.turnTimers = Null, !.runs = Ran("turn")], turnTimers, 90))} :
            Commit(w)
    /\ UNCHANGED << socketToPlayer, chatMessages >>

OfferTimerFires ==
    /\ offerTimers
    /\ RoundsLeft
    /\ \E w \in {SaturateCounters(handleOfferTimeout(
                    [World EXCEPT !.offerTimers = FALSE, !.runs = Ran("offer")], 90))} :
            Commit(w)
    /\ UNCHANGED << socketToPlayer, chatMessages >>

OfferTriggerFires ==
    /\ offerTriggers > 0
    /\ \E w \in {SaturateCounters(triggerBankerOffer(
                    [World EXCEPT !.offerTriggers = @ - 1, !.runs = Ran("trigger")], 90))} :
            Commit(w)
    /\ UNCHANGED << socketToPlayer, chatMessages >>

\* the room with two contestants who may or may not act, and the timers
NextLive ==
    \/ \E s \in StoreJoinSockets : JoinRoom(s, TRUE, RoomCode, Null, FALSE)
    \/ \E s \in Sockets : SelectBox(s, OwnBox(s))
    \/ \E s \in Sockets : PlayerReady(s)
    \/ \E s \in Sockets : StartGame(s, 0, 90)
    \/ \E s \in Sockets, b \in LobbyOpenInputs : OpenBox(s, b)
    \/ \E s \in Sockets, a \in BOOLEAN : DealResponse(s, a, 90)
    \/ TurnTimerFires
    \/ OfferTimerFires
    \/ OfferTriggerFires

\* the steps of the three timers as timerRuns shows them: a step of NextLive
\* is one of TurnTimerRan exactly when it is one of TurnTimerFires, and so on
TurnTimerRan == turnTimers # Null /\ timerRuns' = Ran("turn")
OfferTimerRan == offerTimers /\ RoundsLeft /\ timerRuns' = Ran("offer")
OfferTriggerRan == offerTriggers > 0 /\ timerRuns' = Ran("trigger")

\* every armed timer fires: setTimeout runs its callback unless the timer is
\* cleared first
SpecLive ==
    /\ InitLobby
    /\ [][NextLive]_vars
    /\ WF_timerRuns(TurnTimerRan)
    /\ WF_timerRuns(OfferTimerRan)
    /\ WF_timerRuns(OfferTriggerRan)

(* ---------------- specification: games played to the end --------------- *)
\* from round LastDistinctRound on nothing depends on the number of the
\* round: the quota is 1 (round 5 and later), the banker's modifier is its
\* last one (round 6 and later) and the points for the round of a deal are
\* those of round 4; the round counter stays at that number
SaturateRound(w) == [w EXCEPT !.gs.currentRound = Min(@, LastDistinctRound)]

\* the step to world w with its counters saturated; nothing is kept from
\* happening
Plays(w) ==
    /\ \E v \in {SaturateRound(SaturateCounters(w))} : Commit(v)
    /\ UNCHANGED << socketToPlayer, chatMessages >>

\* the lowest-numbered openable box, or 0
LowestOpenable(gs) ==
    IF \E b \in DOMAIN gs.boxes : IsOpenable(gs, b)
    THEN CHOOSE b \in DOMAIN gs.boxes :
            IsOpenable(gs, b) /\ \A c \in 1..(b - 1) : ~IsOpenable(gs, c)
    ELSE 0

\* the player whose turn it is can open a box
CanOpen ==
    /\ gameState.phase = "playing"
    /\ gameState.currentTurnPlayerId # Null
    /\ ~openBoxRejected(gameState, gameState.currentTurnPlayerId, LowestOpenable(gameState))

\* 'open-box' of the player whose turn it is, for the lowest openable box
TurnPlayerOpens ==
    /\ CanOpen
    /\ Plays(openBox([World EXCEPT !.runs = Ran("open")],
                     gameState.currentTurnPlayerId, LowestOpenable(gameState)))

\* 'deal-response' of a contestant who can answer the offer
ContestantAnswers(playerId, accepted) ==
    /\ ~dealResponseRejected(gameState, playerId)
    /\ Plays(dealResponse(World, playerId, accepted, 90))

TurnTimerExpires ==
    /\ turnTimers # Null
    /\ Plays(handleTurnTimeout([World EXCEPT !.turnTimers = Null, !.runs = Ran("turn")],
                               turnTimers, 90))

OfferTimerExpires ==
    /\ offerTimers
    /\ Plays(handleOfferTimeout([World EXCEPT !.offerTimers = FALSE, !.runs = Ran("offer")], 90))

DelayedOfferComesDue ==
    /\ offerTriggers > 0
    /\ Plays(triggerBankerOffer([World EXCEPT !.offerTriggers = @ - 1, !.runs = Ran("trigger")], 90))

\* one game of two contestants from the lobby on: the host sends 'start-game'
\* once
NextPlay ==
    \/ \E s \in StoreJoinSockets : JoinRoom(s, TRUE, RoomCode, Null, FALSE)
    \/ \E s \in Sockets : SelectBox(s, OwnBox(s))
    \/ \E s \in Sockets : PlayerReady(s)
    \/ \E s \in Sockets : gameState.startedAt = 0 /\ StartGame(s, 0, 90)
    \/ TurnPlayerOpens
    \/ \E id \in PlayerIds(gameState), a \in BOOLEAN : ContestantAnswers(id, a)
    \/ TurnTimerExpires
    \/ OfferTimerExpires
    \/ DelayedOfferComesDue

\* the steps of TurnPlayerOpens and of the offer timer as timerRuns shows them
TurnPlayerOpened == CanOpen /\ timerRuns' = Ran("open")
OfferTimerExpired == offerTimers /\ timerRuns' = Ran("offer")

\* every armed timer fires unless it is cleared first, and the player whose
\* turn it is opens a box sooner or later
SpecPlay ==
    /\ InitLobby
    /\ [][NextPlay]_vars
    /\ WF_timerRuns(TurnTimerRan)
    /\ WF_timerRuns(OfferTimerExpired)
    /\ WF_timerRuns(OfferTriggerRan)
    /\ SF_timerRuns(TurnPlayerOpened)

(* ------------------------------ claims --------------------------------- *)
Boxes(gs) == [b \in 1..Len(gs.boxes) |-> b]
OpenedValues(gs) ==
    LET opened == SelectSeq(Boxes(gs), LAMBDA b : gs.boxes[b].isOpened)
    IN  [k \in DOMAIN opened |-> gs.boxes[opened[k]].value]

\* C1: in every reachable state remainingValues and eliminatedValues together
\* are the ladder as multisets (no value lost or duplicated), and
\* eliminatedValues is the multiset of the values of the opened boxes.
C1_ValueConservation ==
    /\ BagOf(gameState.remainingValues \o gameState.eliminatedValues) = BagOf(Ladder)
    /\ BagOf(gameState.eliminatedValues) = BagOf(OpenedValues(gameState))

\* a finished game in which boxes were opened by open-box, by an accepted
\* deal and by the last-standing reveal, and a deadline was missed
C1_Witness ==
    /\ gameState.phase = "finished"
    /\ \E id \in PlayerIds(gameState) : gameState.players[id].isLastStanding
    /\ \E id \in PlayerIds(gameState) :
          /\ IsContestant(gameState, id)
          /\ gameState.players[id].hasDealt
          /\ ~gameState.players[id].isLastStanding
    /\ \E id \in PlayerIds(gameState) : gameState.players[id].timeoutCount > 0
    /\ \E b \in DOMAIN gameState.boxes :
          /\ gameState.boxes[b].isOpened
          /\ \A id \in PlayerIds(gameState) : gameState.players[id].boxNumber # b
    /\ Len(gameState.eliminatedValues) >= 3

\* the room with the value of every unopened box, and the copy of it held by
\* the box's owner, erased: two rooms that differ only in how the hidden
\* values are assigned to the unopened boxes have the same erasure
HideUnopened(gs) ==
    [gs EXCEPT
        !.boxes = [b \in DOMAIN gs.boxes |->
                      IF gs.boxes[b].isOpened THEN gs.boxes[b]
                      ELSE [gs.boxes[b] EXCEPT !.value = 0]],
        !.players = [id \in DOMAIN gs.players |->
                      IF /\ gs.players[id].boxValue # Null
                         /\ gs.players[id].boxNumber \in DOMAIN gs.boxes
                         /\ ~gs.boxes[gs.players[id].boxNumber].isOpened
                      THEN [gs.players[id] EXCEPT !.boxValue = 0]
                      ELSE gs.players[id]]]

\* the recentlyOpenedBox arguments of the broadcasts: none, or the box opened last
RecentlyOpened(gs) ==
    {<< >>} \cup
    (IF gs.boxesOpenedThisRound = << >> THEN {}
     ELSE LET b == gs.boxesOpenedThisRound[Len(gs.boxesOpenedThisRound)]
          IN  {<< b, gs.boxes[b].value >>})

\* C2: for every recipient and every reachable state, the snapshot carries a
\* box value only for an opened box, and it is the same snapshot as that of
\* the room with the hidden values of the unopened boxes erased, so that two
\* rooms that differ only in the hidden assignment get identical snapshots.
C2_SnapshotHidesUnopened ==
    \A r \in PlayerIds(gameState), rb \in RecentlyOpened(gameState) :
        LET update == createGameStateUpdate(gameState, r, rb)
        IN  /\ \A b \in DOMAIN update.boxes :
                  update.boxes[b].value # Null => gameState.boxes[b].isOpened
            /\ update = createGameStateUpdate(HideUnopened(gameState), r, rb)

\* a game in progress: a spectator is among the recipients, the snapshot shows
\* the value of an opened box, and a contestant's personal box is still closed
C2_Witness ==
    /\ gameState.phase = "playing"
    /\ \E id \in PlayerIds(gameState) : gameState.players[id].role = "spectator"
    /\ \E b \in DOMAIN gameState.boxes :
          createGameStateUpdate(gameState, 1, << >>).boxes[b].value # Null
    /\ \E id \in PlayerIds(gameState) :
          /\ gameState.players[id].boxValue # Null
          /\ ~gameState.boxes[gameState.players[id].boxNumber].isOpened

PhaseChanges ==
    { << "waiting", "playing" >>, << "playing", "offer" >>, << "playing", "finished" >>,
      << "offer", "playing" >>, << "offer", "finished" >> }

\* C3: the phase changes only along waiting->playing, playing->offer,
\* playing->finished, offer->playing and offer->finished; a start-game event
\* moves the room to playing only from waiting; and once the room is finished
\* no event and no timer changes its phase.
C3_PhaseTransitions ==
    [][ /\ gameState'.phase # gameState.phase
            => << gameState.phase, gameState'.phase >> \in PhaseChanges
        /\ ( /\ gameState'.phase # gameState.phase
             /\ gameState'.phase = "playing"
             /\ \E s \in Sockets, i \in 0..(MaxPlayers - 1), rf \in RandomFactors :
                    StartGame(s, i, rf) )
            => gameState.phase = "waiting"
        /\ gameState.phase = "finished" => gameState'.phase = "finished" ]_vars

\* the players with role 'player', whom allPlayersReady counts
RolePlayers(gs) == {id \in PlayerIds(gs) : gs.players[id].role = "player"}

\* C4: a start-game event changes the state only when the sender is the host,
\* the room has at least 2 contestants and every contestant is ready with a
\* box; and when it takes effect the phase is playing, currentRound is 1,
\* turnOrder is the join-ordered list of the contestants with a box, every
\* contestant's boxValue is filled, and a turn is armed for a member of
\* turnOrder.
C4_StartGame ==
    [][ vars' # vars =>
          \A s \in Sockets, i \in 0..(MaxPlayers - 1), rf \in RandomFactors :
            StartGame(s, i, rf) =>
                /\ socketToPlayer[s] # Null
                /\ gameState.hostId = socketToPlayer[s]
                /\ Cardinality(RolePlayers(gameState)) >= 2
                /\ \A id \in RolePlayers(gameState) :
                      gameState.players[id].isReady /\ gameState.players[id].boxNumber # Null
                /\ gameState'.phase = "playing"
                /\ gameState'.currentRound = 1
                /\ gameState'.turnOrder = ContestantIds(gameState)
                /\ \A id \in Range(ContestantIds(gameState)) :
                      gameState'.players[id].boxValue
                          = gameState.boxes[gameState.players[id].boxNumber].value
                /\ gameState'.currentTurnPlayerId \in Range(gameState'.turnOrder)
                /\ turnTimers' = gameState'.currentTurnPlayerId ]_vars

UniqueBoxNumbers(gs) ==
    \A a, b \in PlayerIds(gs) :
        (a # b /\ gs.players[a].boxNumber # Null) =>
            gs.players[a].boxNumber # gs.players[b].boxNumber

\* C5: in every reachable state no two players hold the same non-null
\* boxNumber, and once a contestant is ready their boxNumber never changes.
C5_BoxSelection ==
    /\ [] UniqueBoxNumbers(gameState)
    /\ [][ \A id \in PlayerIds(gameState) :
              gameState.players[id].isReady =>
                  gameState'.players[id].boxNumber = gameState.players[id].boxNumber ]_vars

\* the lobby with two contestants holding boxes, one of them locked in and the
\* other still free to choose
C5_Witness ==
    /\ gameState.phase = "waiting"
    /\ \E a, b \in PlayerIds(gameState) :
          /\ a # b
          /\ gameState.players[a].boxNumber # Null
          /\ gameState.players[b].boxNumber # Null
          /\ gameState.players[a].isReady
          /\ ~gameState.players[b].isReady

\* C6: an open-box event changes the state only if the phase is playing, the
\* sender is currentTurnPlayerId, and the named box exists, is unopened and is
\* no player's personal box; in every other case all of the state, the armed
\* turn timer included, is unchanged.
C6_OpenBoxGuard ==
    \A s \in Sockets, b \in 0..(NumBoxes + 1) :
        openBox(World, socketToPlayer[s], b) # World =>
            /\ gameState.phase = "playing"
            /\ socketToPlayer[s] # Null
            /\ gameState.currentTurnPlayerId = socketToPlayer[s]
            /\ b \in DOMAIN gameState.boxes
            /\ ~gameState.boxes[b].isOpened
            /\ \A id \in PlayerIds(gameState) : gameState.players[id].boxNumber # b

\* a turn passed on by an open-box: a box opened by one contestant while the
\* turn is armed for another, with a spectator in the room
C6_Witness ==
    /\ gameState.phase = "playing"
    /\ turnTimers # Null
    /\ \E id \in PlayerIds(gameState) : gameState.players[id].role = "spectator"
    /\ \E b \in DOMAIN gameState.boxes :
          /\ gameState.boxes[b].isOpened
          /\ gameState.boxes[b].openedByPlayerId # Null
          /\ gameState.boxes[b].openedByPlayerId # gameState.currentTurnPlayerId
          /\ \A id \in PlayerIds(gameState) : gameState.players[id].boxNumber # b

\* C7: a contestant's personal box is opened only if that contestant has
\* dealt, and then its recorded opener is that contestant; and no open-box
\* event, from any player on any turn, opens a personal box.
C7_PersonalBox ==
    /\ \A id \in PlayerIds(gameState) :
          (IsContestant(gameState, id)
           /\ gameState.boxes[gameState.players[id].boxNumber].isOpened) =>
              /\ gameState.players[id].hasDealt
              /\ gameState.boxes[gameState.players[id].boxNumber].openedByPlayerId = id
    /\ \A s \in Sockets, b \in 0..(NumBoxes + 1) :
          \A id \in PlayerIds(gameState) :
              IsContestant(gameState, id) =>
                  openBox(World, socketToPlayer[s], b).gs.boxes[gameState.players[id].boxNumber]
                    = gameState.boxes[gameState.players[id].boxNumber]

\* an offer in which one contestant has accepted, so that their personal box
\* is open, while the other contestant's personal box is closed
C7_Witness ==
    /\ gameState.phase = "offer"
    /\ \E a, b \in PlayerIds(gameState) :
          /\ IsContestant(gameState, a) /\ IsContestant(gameState, b)
          /\ gameState.boxes[gameState.players[a].boxNumber].isOpened
          /\ ~gameState.boxes[gameState.players[b].boxNumber].isOpened

\* the step generates an offer: triggerBankerOffer sets the offer phase, coming
\* from another phase, for a new round, after a start, or as a delayed trigger
OfferGenerated ==
    /\ gameState'.phase = "offer"
    /\ \/ gameState.phase # "offer"
       \/ gameState'.currentRound # gameState.currentRound
       \/ gameState'.startedAt # gameState.startedAt
       \/ offerTriggers' < offerTriggers

\* the step stays within one offer
SameOffer ==
    /\ gameState.phase = "offer"
    /\ gameState'.phase = "offer"
    /\ ~OfferGenerated

\* C8: when an offer is generated, offerEligiblePlayerIds is the list of the
\* contestants (role player, boxNumber set) with hasDealt = false at that
\* moment and offerResponses is empty; and for the rest of that offer the
\* eligible list does not change, whoever joins or deals.
C8_OfferEligible ==
    [][ /\ OfferGenerated =>
              /\ gameState'.offerEligiblePlayerIds = ActiveIds(gameState')
              /\ gameState'.offerResponses = << >>
        /\ SameOffer =>
              gameState'.offerEligiblePlayerIds = gameState.offerEligiblePlayerIds ]_vars

\* an offer in which an eligible contestant has dealt and is still listed,
\* with a spectator in the room who is not listed
C8_Witness ==
    /\ gameState.phase = "offer"
    /\ \E id \in Range(gameState.offerEligiblePlayerIds) : gameState.players[id].hasDealt
    /\ \E id \in PlayerIds(gameState) :
          /\ gameState.players[id].role = "spectator"
          /\ id \notin Range(gameState.offerEligiblePlayerIds)

\* C9: a deal-response event changes the state only if the phase is offer and
\* the sender is eligible, has not dealt and has no response recorded for the
\* offer; and while the offer lasts the event records the answer sent and
\* leaves the answers recorded before as they are.
C9_DealResponseGuard ==
    \A s \in Sockets, a \in BOOLEAN, rf \in RandomFactors :
        LET pid == socketToPlayer[s]
            w == dealResponse(World, pid, a, rf)
        IN  w # World =>
                /\ pid # Null
                /\ gameState.phase = "offer"
                /\ pid \in Range(gameState.offerEligiblePlayerIds)
                /\ ~gameState.players[pid].hasDealt
                /\ pid \notin DOMAIN gameState.offerResponses
                /\ (w.gs.phase = "offer" /\ w.gs.currentRound = gameState.currentRound) =>
                      w.gs.offerResponses = SetResponse(gameState.offerResponses, pid, a)

\* an offer with one answer recorded and another eligible contestant still to
\* answer
C9_Witness ==
    /\ gameState.phase = "offer"
    /\ \E a, b \in Range(gameState.offerEligiblePlayerIds) :
          /\ a \in DOMAIN gameState.offerResponses
          /\ ~gameState.offerResponses[a]
          /\ b \notin DOMAIN gameState.offerResponses

\* what the claim says of an accepted offer: player pid accepts in gameState
\* and after is the resulting room state
AcceptEffects(pid, after) ==
    LET b == gameState.players[pid].boxNumber
        value == gameState.boxes[b].value
    IN  /\ after.players[pid].hasDealt
        /\ after.players[pid].dealAmount = gameState.currentOffer
        /\ after.players[pid].roundDealt = gameState.currentRound
        /\ ~after.players[pid].isLastStanding
        /\ after.boxes[b].isOpened
        /\ after.boxes[b].openedByPlayerId = pid
        /\ value \in Range(gameState.remainingValues)
        /\ value \notin Range(after.remainingValues)
        /\ value \in Range(after.eliminatedValues)
        /\ pid \notin Range(after.turnOrder)

\* the fields an acceptance sets are in after as they are in gameState
RejectKeeps(pid, after) ==
    LET b == gameState.players[pid].boxNumber
    IN  /\ after.players[pid].hasDealt = gameState.players[pid].hasDealt
        /\ after.players[pid].dealAmount = gameState.players[pid].dealAmount
        /\ after.players[pid].roundDealt = gameState.players[pid].roundDealt
        /\ after.players[pid].isLastStanding = gameState.players[pid].isLastStanding
        /\ after.boxes[b] = gameState.boxes[b]
        /\ after.remainingValues = gameState.remainingValues
        /\ after.eliminatedValues = gameState.eliminatedValues
        /\ after.turnOrder = gameState.turnOrder

\* the rejection of pid is the last outstanding answer and leaves pid as the
\* only contestant who has not dealt
RejectEndsGame(pid) ==
    /\ \A id \in Range(gameState.offerEligiblePlayerIds) :
          id # pid => id \in DOMAIN gameState.offerResponses
    /\ ActiveIds(gameState) = << pid >>

\* the last-standing finalisation of pid
LastStandingEffects(pid, after) ==
    LET b == gameState.players[pid].boxNumber
        value == gameState.boxes[b].value
    IN  /\ after.players[pid].hasDealt
        /\ after.players[pid].dealAmount = value
        /\ after.players[pid].roundDealt = gameState.currentRound
        /\ after.players[pid].isLastStanding
        /\ after.boxes[b].isOpened
        /\ after.boxes[b].openedByPlayerId = pid
        /\ value \notin Range(after.remainingValues)
        /\ value \in Range(after.eliminatedValues)
        /\ after.phase = "finished"

\* connection s is that of an eligible contestant who can answer the offer
Responds(s) ==
    /\ socketToPlayer[s] # Null
    /\ gameState.phase = "offer"
    /\ socketToPlayer[s] \in Range(gameState.offerEligiblePlayerIds)
    /\ ~gameState.players[socketToPlayer[s]].hasDealt
    /\ socketToPlayer[s] \notin DOMAIN gameState.offerResponses

\* C10 as stated: an accepted offer sets hasDealt, dealAmount = currentOffer,
\* roundDealt = currentRound and isLastStanding = false, opens the personal box
\* with the player as opener, moves its value to eliminatedValues and removes
\* the player from turnOrder; a rejection changes none of these fields.
C10_AsStated ==
    \A s \in Sockets, rf \in RandomFactors :
        Responds(s) =>
            LET pid == socketToPlayer[s]
                accepted == dealResponse(World, pid, TRUE, rf).gs
                rejected == dealResponse(World, pid, FALSE, rf).gs
            IN  /\ AcceptEffects(pid, accepted)
                /\ RejectKeeps(pid, rejected)

\* C10 amended: an accepted offer has the effects stated; a rejection changes
\* none of these fields unless it is the last outstanding answer and leaves
\* the rejecting player as the only contestant who has not dealt, and then
\* that player is finalised as last-standing by the same event.
C10_DealAccepted ==
    \A s \in Sockets, rf \in RandomFactors :
        Responds(s) =>
            LET pid == socketToPlayer[s]
                accepted == dealResponse(World, pid, TRUE, rf).gs
                rejected == dealResponse(World, pid, FALSE, rf).gs
            IN  /\ AcceptEffects(pid, accepted)
                /\ IF RejectEndsGame(pid)
                   THEN LastStandingEffects(pid, rejected)
                   ELSE RejectKeeps(pid, rejected)

\* a finished game without a missed deadline in which one contestant accepted
\* an offer and the other, having rejected it, was finalised as last-standing
C10_Witness ==
    /\ gameState.phase = "finished"
    /\ \A id \in PlayerIds(gameState) : gameState.players[id].timeoutCount = 0
    /\ \E a, b \in PlayerIds(gameState) :
          /\ IsContestant(gameState, a) /\ IsContestant(gameState, b)
          /\ gameState.players[a].hasDealt
          /\ ~gameState.players[a].isLastStanding
          /\ gameState.players[a].dealAmount > 0
          /\ gameState.players[a].roundDealt = 1
          /\ a \notin Range(gameState.turnOrder)
          /\ gameState.players[b].isLastStanding
          /\ gameState.players[b].dealAmount = gameState.players[b].boxValue

\* the ways the offer of the current state can be resolved: every pair of the
\* contestants left undealt at the resolution and the world that results, for
\* the offer deadline and for each answer that is the last one outstanding
OfferResolutions ==
    IF gameState.phase # "offer" THEN {}
    ELSE { << ActiveIds(gameState),
              handleOfferTimeout([World EXCEPT !.offerTimers = FALSE], rf) >> :
                 rf \in {r \in RandomFactors : offerTimers} }
         \cup
         { << IF x[2] THEN SelectSeq(ActiveIds(gameState), LAMBDA id : id # socketToPlayer[x[1]])
                      ELSE ActiveIds(gameState),
              dealResponse(World, socketToPlayer[x[1]], x[2], x[3]) >> :
                 x \in { y \in Sockets \X BOOLEAN \X RandomFactors :
                           /\ Responds(y[1])
                           /\ \A id \in Range(gameState.offerEligiblePlayerIds) :
                                 id # socketToPlayer[y[1]]
                                    => id \in DOMAIN gameState.offerResponses } }

\* C11: when an offer is resolved (by the last outstanding answer or by the
\* deadline) with exactly one contestant left undealt, that contestant has
\* hasDealt, dealAmount = the value in their personal box, isLastStanding and
\* roundDealt = currentRound, their personal box is opened, the room is
\* finished and one game-ended is emitted, and every other contestant has
\* isLastStanding = false; resolved with no contestant left undealt, the room
\* is finished, game-ended is emitted and no player is last-standing.
C11_LastStanding ==
    \A r \in OfferResolutions :
        LET remaining == r[1]
            after == r[2].gs
        IN  /\ Len(remaining) = 1 =>
                LET pid == remaining[1]
                    b == gameState.players[pid].boxNumber
                IN  /\ after.players[pid].hasDealt
                    /\ after.players[pid].dealAmount = gameState.boxes[b].value
                    /\ after.players[pid].isLastStanding
                    /\ after.players[pid].roundDealt = gameState.currentRound
                    /\ after.boxes[b].isOpened
                    /\ after.phase = "finished"
                    /\ r[2].gameEnded.count = gameEnded.count + 1
                    /\ \A id \in Range(ContestantIds(after)) :
                          id # pid => ~after.players[id].isLastStanding
            /\ Len(remaining) = 0 =>
                /\ after.phase = "finished"
                /\ r[2].gameEnded.count = gameEnded.count + 1
                /\ \A id \in PlayerIds(after) : ~after.players[id].isLastStanding

\* a game finished by the offer deadline: one contestant accepted the offer,
\* the other let the deadline pass and was finalised as last-standing in
\* round 1 with their personal box opened
C11_Witness ==
    /\ gameState.phase = "finished"
    /\ gameEnded.count = 1
    /\ \E a, b \in PlayerIds(gameState) :
          /\ IsContestant(gameState, a) /\ IsContestant(gameState, b)
          /\ gameState.players[a].hasDealt
          /\ ~gameState.players[a].isLastStanding
          /\ gameState.players[a].dealAmount # Null
          /\ gameState.players[b].isLastStanding
          /\ gameState.players[b].timeoutCount = 1
          /\ gameState.players[b].roundDealt = 1
          /\ gameState.boxes[gameState.players[b].boxNumber].isOpened
          /\ Len(gameState.eliminatedValues) = 7

\* connection s can answer the offer and its answer is not the last one
\* outstanding
RespondsInPart(s) ==
    /\ Responds(s)
    /\ \E id \in Range(gameState.offerEligiblePlayerIds) :
          id # socketToPlayer[s] /\ id \notin DOMAIN gameState.offerResponses

\* an answer that is not the last one outstanding leaves the offer open: the
\* phase, the offer, its deadline and the armed offer timer are as before
PartialResponseKeepsOffer ==
    \A s \in Sockets, a \in BOOLEAN, rf \in RandomFactors :
        RespondsInPart(s) =>
            LET w == dealResponse(World, socketToPlayer[s], a, rf)
            IN  /\ w.gs.phase = "offer"
                /\ w.gs.currentOffer = gameState.currentOffer
                /\ w.gs.offerExpiresAt = gameState.offerExpiresAt
                /\ w.gs.currentRound = gameState.currentRound
                /\ w.offerTimers = offerTimers
                /\ w.gameEnded = gameEnded

\* the next round has begun in world w with a fresh turn armed for one of the
\* contestants of remaining, and the offer fields are cleared
NextRoundArmed(w, remaining) ==
    /\ w.gs.phase = "playing"
    /\ w.gs.currentRound = gameState.currentRound + 1
    /\ w.gs.boxesOpenedThisRound = << >>
    /\ w.gs.currentOffer = Null
    /\ w.gs.offerExpiresAt = Null
    /\ w.gs.offerEligiblePlayerIds = << >>
    /\ w.gs.offerResponses = << >>
    /\ w.offerTimers = FALSE
    /\ w.gs.currentTurnPlayerId \in Range(remaining)
    /\ w.gs.turnExpiresAt # Null
    /\ w.turnTimers = w.gs.currentTurnPlayerId
    /\ w.gameEnded = gameEnded

\* the next round has begun in world w and, no box being openable, it has gone
\* straight to a new offer to the contestants of remaining
NextRoundOffer(w, remaining) ==
    /\ w.gs.phase = "offer"
    /\ w.gs.currentRound = gameState.currentRound + 1
    /\ w.gs.boxesOpenedThisRound = << >>
    /\ w.gs.currentOffer # Null
    /\ w.gs.offerEligiblePlayerIds = remaining
    /\ w.gs.offerResponses = << >>
    /\ w.offerTimers = TRUE
    /\ w.gs.currentTurnPlayerId = Null
    /\ w.turnTimers = Null
    /\ w.gameEnded = gameEnded

\* C12 as stated: an answer from only some of the eligible contestants leaves
\* the phase offer with the same currentOffer and offerExpiresAt; and an offer
\* resolved with at least two contestants undealt increases currentRound by 1,
\* clears boxesOpenedThisRound and the offer fields, sets the phase playing
\* with a fresh turn armed, and emits no game-ended.
C12_AsStated ==
    /\ PartialResponseKeepsOffer
    /\ \A r \in OfferResolutions : Len(r[1]) >= 2 => NextRoundArmed(r[2], r[1])

\* C12 amended: as stated while a box is left to open; when no box is
\* openable the next round goes straight to a new offer: currentRound is
\* increased by 1, boxesOpenedThisRound is cleared, the phase is offer with a
\* new offer to the undealt contestants, and no game-ended is emitted.
C12_OfferResolution ==
    /\ PartialResponseKeepsOffer
    /\ \A r \in OfferResolutions :
          Len(r[1]) >= 2 =>
              IF hasOpenableBoxes(gameState)
              THEN NextRoundArmed(r[2], r[1])
              ELSE NextRoundOffer(r[2], r[1])

\* round 2 begun by the answers of the contestants alone: no deadline was
\* missed, nobody has dealt, no box is opened in the round yet and a turn is
\* armed
C12_Witness ==
    /\ gameState.phase = "playing"
    /\ gameState.currentRound = 2
    /\ gameState.boxesOpenedThisRound = << >>
    /\ gameState.currentOffer = Null
    /\ turnTimers # Null
    /\ turnTimers = gameState.currentTurnPlayerId
    /\ gameEnded.count = 0
    /\ Len(ActiveIds(gameState)) = 2
    /\ \A id \in PlayerIds(gameState) : gameState.players[id].timeoutCount = 0

\* the eligible contestants with no answer recorded for the offer
Pending(gs) ==
    SelectSeq(gs.offerEligiblePlayerIds, LAMBDA id : id \notin DOMAIN gs.offerResponses)

RECURSIVE RejectAll(_, _, _)
\* the world after the players of ids have answered 'no deal', one by one
RejectAll(w, ids, rf) ==
    IF ids = << >> THEN w
    ELSE RejectAll(dealResponse(w, Head(ids), FALSE, rf), Tail(ids), rf)

\* the outcome of a resolution: the world without the timeout counts and
\* without what is computed from them (points and leaderboards)
Outcome(w) ==
    [ gs |-> [w.gs EXCEPT
                !.players = [id \in DOMAIN w.gs.players |->
                    [w.gs.players[id] EXCEPT !.timeoutCount = 0, !.points = 0]]],
      turnTimers |-> w.turnTimers,
      offerTimers |-> w.offerTimers,
      offerTriggers |-> w.offerTriggers,
      gameEnded |-> w.gameEnded.count ]

\* C13: when the offer deadline fires in the offer phase, exactly the
\* eligible contestants with no recorded answer get timeoutCount + 1 and do
\* not take the offer; those who answered keep their answer (an acceptance
\* stands) and their timeoutCount; and the offer is resolved with the outcome
\* it would have had if the missing answers had been sent as 'no deal'.
C13_OfferTimeout ==
    (gameState.phase = "offer" /\ offerTimers) =>
        \A rf \in RandomFactors :
            LET w == handleOfferTimeout([World EXCEPT !.offerTimers = FALSE], rf)
                pending == Range(Pending(gameState))
            IN  /\ \A id \in PlayerIds(gameState) :
                      w.gs.players[id].timeoutCount =
                          gameState.players[id].timeoutCount
                              + (IF id \in pending THEN 1 ELSE 0)
                /\ \A id \in pending :
                      w.gs.players[id].hasDealt => w.gs.players[id].isLastStanding
                /\ \A id \in DOMAIN gameState.offerResponses :
                      /\ w.gs.players[id].hasDealt = gameState.offerResponses[id]
                            \/ w.gs.players[id].isLastStanding
                      /\ gameState.offerResponses[id] =>
                            w.gs.players[id].dealAmount = gameState.players[id].dealAmount
                /\ Outcome(w) = Outcome(RejectAll(World, Pending(gameState), rf))

\* round 2 begun by the offer deadline: nobody has dealt, one contestant has
\* the one missed deadline on their count and the other has none
C13_Witness ==
    /\ gameState.phase = "playing"
    /\ gameState.currentRound = 2
    /\ gameState.boxesOpenedThisRound = << >>
    /\ turnTimers # Null
    /\ ~offerTimers
    /\ \E a, b \in Range(ActiveIds(gameState)) :
          /\ gameState.players[a].timeoutCount = 1
          /\ gameState.players[b].timeoutCount = 0

\* the undealt contestant who follows the current turn in cyclic turnOrder
NextInTurnOrder(gs) ==
    LET n == Len(gs.turnOrder)
        at(k) == gs.turnOrder[((gs.currentTurnIndex + k) % n) + 1]
        k == CHOOSE k \in 1..n :
                /\ IsActive(gs, at(k))
                /\ \A j \in 1..(k - 1) : ~IsActive(gs, at(j))
    IN  at(k)

\* C14: when the turn timer fires in phase playing for the player who is
\* still currentTurnPlayerId, that player's timeoutCount goes up by exactly 1,
\* the turn passes to the next undealt contestant in cyclic turnOrder with
\* turnExpiresAt set and a new timer armed for them, and nothing else changes:
\* the boxes, boxesOpenedThisRound, remainingValues, eliminatedValues,
\* currentRound, the phase and all other fields are as before.
C14_TurnTimeout ==
    (gameState.phase = "playing" /\ turnTimers # Null
        /\ gameState.currentTurnPlayerId = turnTimers) =>
        \A rf \in RandomFactors :
            LET pid == turnTimers
                w == handleTurnTimeout([World EXCEPT !.turnTimers = Null], pid, rf)
            IN  /\ w.gs.players[pid].timeoutCount = gameState.players[pid].timeoutCount + 1
                /\ w.gs.currentTurnPlayerId = NextInTurnOrder(gameState)
                /\ w.gs.turnOrder[w.gs.currentTurnIndex + 1] = w.gs.currentTurnPlayerId
                /\ w.gs.turnExpiresAt # Null
                /\ w.turnTimers = w.gs.currentTurnPlayerId
                /\ w.gs.boxes = gameState.boxes
                /\ w.gs.boxesOpenedThisRound = gameState.boxesOpenedThisRound
                /\ w.gs.remainingValues = gameState.remainingValues
                /\ w.gs.eliminatedValues = gameState.eliminatedValues
                /\ w.gs.currentRound = gameState.currentRound
                /\ [w EXCEPT !.turnTimers = turnTimers,
                             !.gs = [w.gs EXCEPT
                                       !.players[pid].timeoutCount = @ - 1,
                                       !.currentTurnIndex = gameState.currentTurnIndex,
                                       !.currentTurnPlayerId = pid,
                                       !.turnExpiresAt = gameState.turnExpiresAt]]
                      = World

\* the first round of the first game, after a missed turn: the contestant
\* with the missed deadline is not the one the turn is armed for, and a box
\* was opened before
C14_Witness ==
    /\ gameState.phase = "playing"
    /\ gameState.currentRound = 1
    /\ gameState.startedAt = 1
    /\ gameState.boxesOpenedThisRound # << >>
    /\ turnTimers # Null
    /\ turnTimers = gameState.currentTurnPlayerId
    /\ \E id \in Range(gameState.turnOrder) :
          /\ id # gameState.currentTurnPlayerId
          /\ gameState.players[id].timeoutCount = 1

\* the scoring formula of the claim, on amounts in pence: floor(pounds / 100)
\* is amount \div 10000
Score(amount, boxValue, roundDealt, isLastStanding, maxAmount, timeoutCount) ==
    LET sum == Min(amount \div 10000, 3000)
                + (IF amount > boxValue THEN 200 ELSE 0)
                + (IF roundDealt >= 4 THEN 150 ELSE 0)
                - (IF roundDealt <= 2 THEN 50 ELSE 0)
                + (IF isLastStanding THEN 200 ELSE 0)
                + (IF amount = maxAmount THEN 200 ELSE 0)
                - 50 * timeoutCount
    IN  IF sum > 0 THEN sum ELSE 0

\* C15: in every finished game each contestant has an entry in the game-ended
\* leaderboard whose amount is their final amount and whose points are the
\* scoring formula of that amount, the value of their personal box, the round
\* in which they dealt or were finalised, their last-standing flag, the
\* highest final amount among the contestants and their timeoutCount.
C15_FinalPoints ==
    gameState.phase = "finished" =>
        LET ids == Range(ContestantIds(gameState))
            amount(id) == gameState.players[id].dealAmount
        IN  \A id \in ids :
                LET p == gameState.players[id]
                    maxAmount == CHOOSE a \in {amount(i) : i \in ids} :
                                    \A i \in ids : amount(i) <= a
                    expected == Score(amount(id), gameState.boxes[p.boxNumber].value,
                                      p.roundDealt, p.isLastStanding, maxAmount,
                                      p.timeoutCount)
                IN  /\ p.points = expected
                    /\ \E k \in DOMAIN gameEnded.leaderboard :
                          /\ gameEnded.leaderboard[k].playerId = id
                          /\ gameEnded.leaderboard[k].amount = amount(id)
                          /\ gameEnded.leaderboard[k].points = expected

\* a finished game that lasted to round 4: one contestant dealt in round 4,
\* one contestant missed a deadline, and the leaderboard has an entry with the
\* last-standing mark and points above 200
C15_Witness ==
    /\ gameState.phase = "finished"
    /\ \E id \in PlayerIds(gameState) :
          IsContestant(gameState, id) /\ gameState.players[id].roundDealt = 4
    /\ \E id \in PlayerIds(gameState) :
          IsContestant(gameState, id) /\ gameState.players[id].timeoutCount = 1
    /\ \E k \in DOMAIN gameEnded.leaderboard :
          gameEnded.leaderboard[k].wasBoxValue /\ gameEnded.leaderboard[k].points > 200

\* C16: in every state with phase finished every contestant has dealt, the
\* game-ended leaderboard has exactly one entry per contestant and none for
\* anyone else, every entry has points >= 0, the entries are in order of
\* points descending, and the rank of the k-th entry is k, so that the ranks
\* are 1..N without repeats.
C16_FinishedLeaderboard ==
    gameState.phase = "finished" =>
        LET lb == gameEnded.leaderboard
            ids == ContestantIds(gameState)
        IN  /\ \A id \in Range(ids) : gameState.players[id].hasDealt
            /\ Len(lb) = Len(ids)
            /\ {lb[k].playerId : k \in DOMAIN lb} = Range(ids)
            /\ \A k \in DOMAIN lb :
                  /\ lb[k].points >= 0
                  /\ gameState.players[lb[k].playerId].role # "spectator"
                  /\ lb[k].rank = k
            /\ \A k \in 1..(Len(lb) - 1) : lb[k].points >= lb[k + 1].points
            /\ {lb[k].rank : k \in DOMAIN lb} = 1..Len(ids)

\* a finished game with a spectator in the room, in which the contestant who
\* joined later is ranked first, with more points than the host
C16_Witness ==
    /\ gameState.phase = "finished"
    /\ \E id \in PlayerIds(gameState) : gameState.players[id].role = "spectator"
    /\ Len(gameEnded.leaderboard) = 2
    /\ gameEnded.leaderboard[1].playerId > gameEnded.leaderboard[2].playerId
    /\ gameEnded.leaderboard[1].points > gameEnded.leaderboard[2].points
    /\ gameEnded.leaderboard[2].rank = 2

\* C17: a player with hasDealt = true keeps hasDealt, dealAmount, roundDealt
\* and isLastStanding in every later state, is never currentTurnPlayerId, has
\* every open-box event ignored, and is not in offerEligiblePlayerIds of any
\* offer generated afterwards.
C17_DealtIsFinal ==
    /\ [] \A id \in PlayerIds(gameState) :
            gameState.players[id].hasDealt =>
                /\ gameState.currentTurnPlayerId # id
                /\ \A b \in 0..(NumBoxes + 1) : openBox(World, id, b) = World
    /\ [][ \A id \in PlayerIds(gameState) :
              gameState.players[id].hasDealt =>
                  /\ gameState'.players[id].hasDealt
                  /\ gameState'.players[id].dealAmount = gameState.players[id].dealAmount
                  /\ gameState'.players[id].roundDealt = gameState.players[id].roundDealt
                  /\ gameState'.players[id].isLastStanding
                        = gameState.players[id].isLastStanding
                  /\ OfferGenerated => id \notin Range(gameState'.offerEligiblePlayerIds)
         ]_vars

\* a later offer of a game with three contestants: one of them dealt in an
\* earlier round and is not among the two eligible for the current offer
C17_Witness ==
    /\ gameState.phase = "offer"
    /\ gameState.currentRound >= 2
    /\ Len(gameState.offerEligiblePlayerIds) = 2
    /\ \E id \in PlayerIds(gameState) :
          /\ IsContestant(gameState, id)
          /\ gameState.players[id].hasDealt
          /\ gameState.players[id].roundDealt < gameState.currentRound
          /\ id \notin Range(gameState.offerEligiblePlayerIds)

\* C18: the room never has more than 6 players of role player; the set of
\* players of role player changes only while the phase is waiting, and no
\* player changes role; and in every phase a join as spectator with the
\* room's code and password is accepted and adds a spectator.
C18_Contestants ==
    /\ [] /\ Cardinality(RolePlayers(gameState)) <= 6
          /\ \A s \in Sockets :
                LET joined == joinRoomEvent(gameState, socketToPlayer, s, TRUE, RoomCode,
                                            gameState.password, TRUE).gs
                IN  /\ Len(joined.players) = Len(gameState.players) + 1
                    /\ joined.players[Len(joined.players)].role = "spectator"
                    /\ RolePlayers(joined) = RolePlayers(gameState)
    /\ [][ /\ gameState.phase # "waiting" => RolePlayers(gameState') = RolePlayers(gameState)
           /\ \A id \in PlayerIds(gameState) :
                 gameState'.players[id].role = gameState.players[id].role ]_vars

\* a game in progress with six contestants, joined by a spectator after the
\* start
C18_Witness ==
    /\ gameState.phase = "playing"
    /\ Cardinality(RolePlayers(gameState)) = 6
    /\ Len(gameState.turnOrder) = 6
    /\ Len(gameState.players) = 7
    /\ gameState.players[7].role = "spectator"

\* the error of the claim for a join-room request with the given code and
\* password: the first check that fails, in the order of the claim
ClaimedJoinError(roomCode, password, asSpectator) ==
    IF roomCode # RoomCode THEN "Room not found"
    ELSE IF gameState.password # Null /\ password # gameState.password
    THEN "Incorrect password"
    ELSE IF ~asSpectator /\ gameState.phase # "waiting" THEN "Game already in progress"
    ELSE IF ~asSpectator /\ Cardinality(RolePlayers(gameState)) >= 6 THEN "Room is full"
    ELSE ""

\* C19: a join-room request (with a name and a room code) fails with 'Room
\* not found' for an unknown code, else 'Incorrect password' when the room
\* has a password other than the one supplied, else 'Game already in
\* progress' for a contestant join outside waiting, else 'Room is full' for a
\* contestant join with 6 contestants present; a failed request leaves the
\* room and the connection index as they are, a successful one adds exactly
\* one player.
C19_JoinErrors ==
    \A s \in Sockets, c \in JoinCodes \ {""}, pw \in Passwords, sp \in BOOLEAN :
        LET error == joinRoomAck(gameState, TRUE, c, pw, sp)
            joined == joinRoomEvent(gameState, socketToPlayer, s, TRUE, c, pw, sp)
        IN  /\ error = ClaimedJoinError(c, pw, sp)
            /\ error # "" =>
                  joined = [gs |-> gameState, socketToPlayer |-> socketToPlayer]
            /\ error = "" =>
                  /\ Len(joined.gs.players) = Len(gameState.players) + 1
                  /\ joined.socketToPlayer[s] = Len(joined.gs.players)

\* a game in progress in a room with a password and six contestants: a
\* contestant join fails on the code, on the password, on the phase and on
\* the number of contestants
C19_Witness ==
    /\ gameState.phase = "playing"
    /\ gameState.password = 1
    /\ Cardinality(RolePlayers(gameState)) = 6

\* C20: a spectator join with the room's code and password is accepted in
\* every phase; select-box, player-ready, start-game, open-box, deal-response
\* and chat-message events of a spectator leave the game state, the timers and
\* the chat history unchanged; and no spectator is in turnOrder, is the
\* current turn player, is offer-eligible or has a leaderboard entry.
C20_SpectatorInert ==
    /\ joinRoomAck(gameState, TRUE, RoomCode, gameState.password, TRUE) = ""
    /\ \A id \in PlayerIds(gameState) :
          gameState.players[id].role = "spectator" =>
              /\ id \notin Range(gameState.turnOrder)
              /\ id # gameState.currentTurnPlayerId
              /\ id # turnTimers
              /\ id \notin Range(gameState.offerEligiblePlayerIds)
              /\ \A k \in DOMAIN gameEnded.leaderboard :
                    gameEnded.leaderboard[k].playerId # id
              /\ \A b \in 0..(NumBoxes + 1) :
                    /\ selectBox(gameState, id, b) = gameState
                    /\ openBox(World, id, b) = World
              /\ playerReady(gameState, id) = gameState
              /\ \A i \in 0..(MaxPlayers - 1), rf \in RandomFactors :
                    startGame(World, id, i, rf) = World
              /\ \A a \in BOOLEAN, rf \in RandomFactors :
                    dealResponse(World, id, a, rf) = World
              /\ \A n \in {1, 501} :
                    chatMessage(gameState, chatMessages, id, n) = chatMessages

\* an offer with a spectator whose connection is live in the room, while the
\* chat history holds a message of a contestant
C20_Witness ==
    /\ gameState.phase = "offer"
    /\ \E s \in Sockets :
          /\ socketToPlayer[s] # Null
          /\ gameState.players[socketToPlayer[s]].role = "spectator"
    /\ Len(chatMessages) = 1
    /\ gameState.players[chatMessages[1].senderId].role = "player"
    /\ chatMessages[1].contentLength = 500

\* room state a differs from room state b at most in the isConnected flags
SameButConnected(a, b) ==
    /\ DOMAIN a.players = DOMAIN b.players
    /\ [a EXCEPT !.players = b.players] = b
    /\ \A id \in DOMAIN a.players :
          [a.players[id] EXCEPT !.isConnected = b.players[id].isConnected] = b.players[id]

\* C21: a disconnect of a connection bound to a player sets that player's
\* isConnected to false and removes the connection's index entry, and changes
\* nothing else: the player stays in the room, the room stays in the store,
\* phase, turn, offer, boxes, turnOrder and the pending timers are as before,
\* and the turn and offer deadlines act on the room as they would have acted
\* with the player connected. A disconnect of a connection bound to no player
\* changes nothing.
C21_Disconnect ==
    /\ [] \A s \in Sockets :
            LET pid == socketToPlayer[s]
                left == handleDisconnect(gameState, socketToPlayer, s)
                after == [World EXCEPT !.gs = left.gs]
            IN  IF pid = Null
                THEN left = [gs |-> gameState, socketToPlayer |-> socketToPlayer]
                ELSE /\ SameButConnected(left.gs, gameState)
                     /\ \A id \in PlayerIds(gameState) :
                           left.gs.players[id].isConnected =
                               (id # pid /\ gameState.players[id].isConnected)
                     /\ left.socketToPlayer = [socketToPlayer EXCEPT ![s] = Null]
                     /\ turnTimers # Null =>
                           /\ handleTurnTimeout(after, turnTimers, 90) # after
                           /\ SameButConnected(handleTurnTimeout(after, turnTimers, 90).gs,
                                               handleTurnTimeout(World, turnTimers, 90).gs)
                     /\ offerTimers =>
                           /\ handleOfferTimeout(after, 90) # after
                           /\ SameButConnected(handleOfferTimeout(after, 90).gs,
                                               handleOfferTimeout(World, 90).gs)
    /\ [][ (\E s \in Sockets : Disconnect(s)) =>
              UNCHANGED << turnTimers, offerTimers, offerTriggers, rooms, chatMessages,
                           globalLeaderboard, gameEnded >> ]_vars

\* the turn of a disconnected contestant: the turn timer is pending for a
\* player who is marked as not connected and to whom no connection is bound
C21_Witness ==
    /\ gameState.phase = "playing"
    /\ turnTimers # Null
    /\ turnTimers = gameState.currentTurnPlayerId
    /\ ~gameState.players[turnTimers].isConnected
    /\ \A s \in Sockets : socketToPlayer[s] # turnTimers
    /\ RoomCode \in rooms

\* C22: a disconnect followed by reconnect-player with the same playerId on a
\* new connection gives the room state of before the disconnect, except that
\* the player's socketId is the new connection and isConnected is true; the
\* new connection is resolved to that player and the acknowledgement is a
\* success. A reconnect-player with the id of no player is acknowledged with
\* 'Player not found' and changes neither the room nor the index.
C22_Reconnect ==
    /\ \A s \in Sockets, n \in Sockets :
          (socketToPlayer[s] # Null /\ socketToPlayer[n] = Null) =>
              LET pid == socketToPlayer[s]
                  left == handleDisconnect(gameState, socketToPlayer, s)
                  back == reconnectPlayer(left.gs, left.socketToPlayer, pid, n)
              IN  /\ reconnectPlayerAck(left.gs, pid) = ""
                  /\ back.gs = [gameState EXCEPT
                                  !.players[pid].socketId = n,
                                  !.players[pid].isConnected = TRUE]
                  /\ back.socketToPlayer[n] = pid
                  /\ \A t \in Sockets \ {s, n} : back.socketToPlayer[t] = socketToPlayer[t]
    /\ \A n \in Sockets :
          LET unknown == Len(gameState.players) + 1
          IN  /\ reconnectPlayerAck(gameState, unknown) = "Player not found"
              /\ reconnectPlayer(gameState, socketToPlayer, unknown, n)
                    = [gs |-> gameState, socketToPlayer |-> socketToPlayer]

\* an offer in which an eligible contestant is back on a new connection: the
\* connection they joined on is bound to nobody, the new one to them
C22_Witness ==
    /\ gameState.phase = "offer"
    /\ \E n \in NewSockets :
          /\ socketToPlayer[n] # Null
          /\ socketToPlayer[n] \in Range(gameState.offerEligiblePlayerIds)
          /\ gameState.players[socketToPlayer[n]].socketId = n
          /\ gameState.players[socketToPlayer[n]].isConnected
          /\ socketToPlayer[socketToPlayer[n]] = Null

\* C23: the sweep, at whatever time it runs, leaves a room in playing or offer
\* alone, deletes a waiting or selection room exactly when it is older than its
\* TTL and a finished room exactly when it finished longer ago than the
\* finished TTL; and whenever the room is absent from the store no turn, offer
\* or delayed-offer timer of it is pending.
SweepTimes == now..(MaxNow + 1)

C23_Sweep ==
    /\ RoomCode \in rooms =>
         \A t \in SweepTimes :
            LET swept == cleanupRooms(Store, gameState, t)
                deleted == RoomCode \notin swept.rooms
            IN  /\ ~deleted => swept = Store
                /\ gameState.phase \in {"playing", "offer"} => ~deleted
                /\ gameState.phase = "waiting" =>
                      (deleted <=> t - gameState.createdAt > ROOM_WAITING_TTL_MS)
                /\ gameState.phase = "selection" =>
                      (deleted <=> t - gameState.createdAt > ROOM_SELECTION_TTL_MS)
                /\ gameState.phase = "finished" =>
                      /\ gameState.finishedAt # Null
                      /\ deleted <=> t - gameState.finishedAt > ROOM_FINISHED_TTL_MS
    /\ RoomCode \notin rooms => PendingTimers(World) = {}

\* the sweep has deleted a finished room past the finished TTL
C23_Witness ==
    /\ RoomCode \notin rooms
    /\ gameState.phase = "finished"
    /\ now - gameState.finishedAt > ROOM_FINISHED_TTL_MS
    /\ now - gameState.createdAt <= ROOM_WAITING_TTL_MS

\* C24: the room is finalised at most once, so 'game-ended' has been broadcast
\* at most once, and every contestant's entry of the global leaderboard counts
\* the room once when it is finished (gamesPlayed 1, totalPoints their final
\* points) and is absent before that; the leaderboard changes only in a step
\* that finalises the room.
FinishedRooms(id) ==
    IF gameState.phase = "finished" /\ IsContestant(gameState, id) THEN 1 ELSE 0

C24_FinalisedOnce ==
    /\ gameEnded.count <= 1
    /\ \A id \in PlayerIds(gameState) :
          IF FinishedRooms(id) = 0
          THEN id \notin DOMAIN globalLeaderboard
          ELSE /\ id \in DOMAIN globalLeaderboard
               /\ globalLeaderboard[id].gamesPlayed = FinishedRooms(id)
               /\ globalLeaderboard[id].totalPoints = gameState.players[id].points

\* C25: sanitiseName is idempotent: applied to a name it has already
\* sanitised it returns that name unchanged, whatever the name was (longer
\* than the limit, with inner or trailing blanks, with a banned word).
C25_Idempotent ==
    sanitiseName(sanitiseName(playerName)) = sanitiseName(playerName)

\* C26: when every armed timer fires, an offer of round r is always followed
\* by the room being finished or in a later round than r, whether or not any
\* client responds (r below MaxRound, after which the model starts no round).
C26_OfferResolved ==
    \A r \in 1..(MaxRound - 1) :
        (gameState.phase = "offer" /\ gameState.currentRound = r)
            ~> (gameState.phase = "finished" \/ gameState.currentRound > r)

\* C27: whenever a turn is armed (currentTurnPlayerId is not null) some box is
\* unopened and is no contestant's personal box; and a room in phase playing
\* with no such box left has no turn armed and a delayed banker offer pending
\* whose callback puts the room in phase offer or finished, so the room never
\* waits in playing for a box that cannot be opened.
C27_TurnNeedsOpenableBox ==
    /\ gameState.currentTurnPlayerId # Null => hasOpenableBoxes(gameState)
    /\ (gameState.phase = "playing" /\ ~hasOpenableBoxes(gameState)) =>
          /\ gameState.currentTurnPlayerId = Null
          /\ turnTimers = Null
          /\ offerTriggers > 0
          /\ \A rf \in RandomFactors :
                triggerBankerOffer([World EXCEPT !.offerTriggers = @ - 1], rf).gs.phase
                    \in {"offer", "finished"}

\* the last openable box has just been opened with the quota of the round
\* unmet, and the delayed offer is pending
C27_Witness ==
    /\ gameState.phase = "playing"
    /\ ~hasOpenableBoxes(gameState)
    /\ gameState.boxesOpenedThisRound # << >>
    /\ Len(gameState.boxesOpenedThisRound) < getBoxesToOpenForRound(gameState.currentRound)
    /\ offerTriggers > 0

\* C28: once the game has started, turnOrder is the sequence, in join order
\* and without repetition, of exactly the contestants that have a box number
\* and have not dealt.
C28_TurnOrderIsActive ==
    gameState.startedAt > 0 => gameState.turnOrder = ActiveIds(gameState)

\* the position of the player of connection s in turnOrder, counted from 0
TurnPosition(s) == IndexOf(gameState.turnOrder, socketToPlayer[s]) - 1

\* connection s can accept the offer, is not the last to answer, and its
\* player is in turnOrder
AcceptsInPart(s) ==
    /\ RespondsInPart(s)
    /\ gameState.currentOffer # Null
    /\ TurnPosition(s) > -1

\* C29 as stated: when a contestant accepts a deal and is removed from
\* turnOrder, currentTurnIndex is decremented by one (never below 0) if the
\* position of the player in turnOrder was less than or equal to
\* currentTurnIndex, and is left unchanged otherwise.
C29_AsStated ==
    \A s \in Sockets, rf \in RandomFactors :
        AcceptsInPart(s) =>
            LET after == dealResponse(World, socketToPlayer[s], TRUE, rf).gs
            IN  /\ socketToPlayer[s] \notin Range(after.turnOrder)
                /\ after.currentTurnIndex =
                      IF TurnPosition(s) <= gameState.currentTurnIndex
                      THEN Max(0, gameState.currentTurnIndex - 1)
                      ELSE gameState.currentTurnIndex

\* C29: when a contestant accepts a deal and is removed from turnOrder,
\* currentTurnIndex is decremented by one (never below 0) if the position of
\* the player in turnOrder was less than currentTurnIndex, and is left
\* unchanged otherwise, also when the player was at currentTurnIndex itself.
C29_TurnIndexOnAccept ==
    \A s \in Sockets, rf \in RandomFactors :
        AcceptsInPart(s) =>
            LET after == dealResponse(World, socketToPlayer[s], TRUE, rf).gs
            IN  /\ socketToPlayer[s] \notin Range(after.turnOrder)
                /\ after.currentTurnIndex =
                      IF TurnPosition(s) < gameState.currentTurnIndex
                      THEN Max(0, gameState.currentTurnIndex - 1)
                      ELSE gameState.currentTurnIndex

\* a contestant at position currentTurnIndex, not the first of turnOrder, has
\* accepted while another answer is outstanding: currentTurnIndex is as it
\* was, one past the positions of the shortened turnOrder
C29_Witness ==
    /\ gameState.phase = "offer"
    /\ gameState.startedAt = 1
    /\ gameState.currentTurnIndex >= 1
    /\ gameState.currentTurnIndex = Len(gameState.turnOrder)
    /\ \E id \in DOMAIN gameState.offerResponses :
          /\ gameState.offerResponses[id]
          /\ gameState.players[id].hasDealt
          /\ id \notin Range(gameState.turnOrder)

\* C30: currentOffer and offerExpiresAt are non-null and offerEligiblePlayerIds
\* is non-empty exactly when the phase is offer; in waiting, playing and
\* finished currentOffer and offerExpiresAt are null and offerEligiblePlayerIds
\* and offerResponses are empty.
C30_OfferFields ==
    /\ (/\ gameState.currentOffer # Null
        /\ gameState.offerExpiresAt # Null
        /\ gameState.offerEligiblePlayerIds # << >>) <=> gameState.phase = "offer"
    /\ gameState.phase \in {"waiting", "playing", "finished"} =>
          /\ gameState.currentOffer = Null
          /\ gameState.offerExpiresAt = Null
          /\ gameState.offerEligiblePlayerIds = << >>
          /\ gameState.offerResponses = << >>

\* the current round is not complete: fewer boxes were opened in it than its
\* quota, and an openable box remains
RoundNotComplete ==
    /\ Len(gameState.boxesOpenedThisRound) < getBoxesToOpenForRound(gameState.currentRound)
    /\ hasOpenableBoxes(gameState)

\* C31: in phase offer currentTurnPlayerId is null; in phase playing with the
\* round not complete currentTurnPlayerId is a member of turnOrder, is
\* turnOrder[currentTurnIndex], and is a contestant that has not dealt.
C31_TurnOwner ==
    /\ gameState.phase = "offer" => gameState.currentTurnPlayerId = Null
    /\ (gameState.phase = "playing" /\ RoundNotComplete) =>
          /\ gameState.currentTurnPlayerId \in Range(gameState.turnOrder)
          /\ gameState.currentTurnIndex + 1 \in DOMAIN gameState.turnOrder
          /\ gameState.currentTurnPlayerId = gameState.turnOrder[gameState.currentTurnIndex + 1]
          /\ IsActive(gameState, gameState.currentTurnPlayerId)

\* C32: no turn or offer timer is ever armed over a pending timer of its class
\* without cancelling it, so the room has at most one pending turn timer and
\* at most one pending offer timer; and while the phase is playing a pending
\* turn timer is the one armed for currentTurnPlayerId.
C32_OneTimerPerClass ==
    /\ orphanTimers = 0
    /\ (gameState.phase = "playing" /\ turnTimers # Null) =>
          turnTimers = gameState.currentTurnPlayerId

\* a turn has been armed by a timeout that passed the turn on, while the
\* offer timer of an abandoned offer is still pending: one timer of each class
C32_Witness ==
    /\ gameState.phase = "playing"
    /\ turnTimers # Null
    /\ offerTimers
    /\ \E id \in PlayerIds(gameState) : gameState.players[id].timeoutCount > 0

\* C33: a timer whose guard no longer holds does nothing.  In every reachable
\* state, a turn timer armed for a contestant who is not currentTurnPlayerId,
\* or any turn timer while the phase is not playing, and the offer timer
\* while the phase is not offer, run their handler without changing the room,
\* the timers, the leaderboard or anything else.
C33_StaleTimerNoOp ==
    /\ \A playerId \in PlayerIds(gameState) :
          (gameState.phase # "playing" \/ gameState.currentTurnPlayerId # playerId) =>
             \A randomFactor \in {90, 110} :
                handleTurnTimeout(World, playerId, randomFactor) = World
    /\ gameState.phase # "offer" =>
          \A randomFactor \in {90, 110} : handleOfferTimeout(World, randomFactor) = World

\* the offer timer of an offer that a new start abandoned has fired while the
\* contestants were opening boxes: the offer it was armed for is still shown
C33_Witness ==
    /\ gameState.phase = "playing"
    /\ gameState.currentOffer # Null
    /\ ~offerTimers
    /\ turnTimers # Null

\* C34: a finished room has no pending turn timer, offer timer or delayed
\* offer trigger, and its currentOffer, offerExpiresAt, currentTurnPlayerId
\* and turnExpiresAt are null and its offerEligiblePlayerIds and
\* offerResponses empty.
C34_FinishedIsQuiet ==
    gameState.phase = "finished" =>
       /\ turnTimers = Null
       /\ ~offerTimers
       /\ offerTriggers = 0
       /\ gameState.currentOffer = Null
       /\ gameState.offerExpiresAt = Null
       /\ gameState.currentTurnPlayerId = Null
       /\ gameState.turnExpiresAt = Null
       /\ gameState.offerEligiblePlayerIds = <<>>
       /\ gameState.offerResponses = <<>>

\* C35: the boxes opened in a round never outnumber the round's quota ...
C35_QuotaRespected ==
    Len(gameState.boxesOpenedThisRound) <= getBoxesToOpenForRound(gameState.currentRound)

\* C35: ... and while the delayed banker offer of a completed round is
\* pending no open-box is accepted (no box number is appended to
\* boxesOpenedThisRound).
C35_QuotaAndPause ==
    /\ [](C35_QuotaRespected)
    /\ [][offerTriggers > 0 =>
            Len(gameState'.boxesOpenedThisRound) # Len(gameState.boxesOpenedThisRound) + 1]_vars

\* the step ends an offer and starts the next round with a turn
NewRoundStarts ==
    /\ gameState.phase = "offer"
    /\ gameState'.phase = "playing"
    /\ gameState'.currentRound = gameState.currentRound + 1
    /\ gameState.boxesOpenedThisRound # <<>>

\* the contestant who opened the last box of the round that ended
LastOpener ==
    gameState.boxes[gameState.boxesOpenedThisRound[Len(gameState.boxesOpenedThisRound)]].openedByPlayerId

\* the first undealt contestant of gs after playerId in cyclic join order
FirstUndealtAfter(gs, playerId) ==
    LET n == Len(gs.players)
        at(i) == ((playerId - 1 + i) % n) + 1
    IN  IF \E i \in 1..n : IsActive(gs, at(i))
        THEN at(CHOOSE i \in 1..n : IsActive(gs, at(i)) /\ \A j \in 1..(i - 1) : ~IsActive(gs, at(j)))
        ELSE Null

\* C36: the first turn of a new round goes to the first undealt contestant
\* that follows, in cyclic join order, the contestant who opened the last box
\* of the previous round, whoever accepted the offer in between.
C36_FairRotation ==
    [][NewRoundStarts =>
          gameState'.currentTurnPlayerId = FirstUndealtAfter(gameState', LastOpener)]_vars

RECURSIVE AnswerAll(_, _, _, _)
\* the world after the players of order have sent 'deal-response' one by
\* one, each with the answer that answers gives them
AnswerAll(w, order, answers, rf) ==
    IF order = << >> THEN w
    ELSE AnswerAll(dealResponse(w, Head(order), answers[Head(order)], rf),
                   Tail(order), answers, rf)

\* the orders in which the players of ids can arrive
ArrivalOrders(ids) ==
    {order \in [1..Cardinality(ids) -> ids] :
        \A i, j \in DOMAIN order : i # j => order[i] # order[j]}

\* what is compared after a resolution: the phase, the round, the result of
\* each player, the rotation, the set of opened boxes and the eliminated
\* values with their multiplicities
ResolvedState(w) ==
    [ phase |-> w.gs.phase,
      currentRound |-> w.gs.currentRound,
      players |-> [id \in DOMAIN w.gs.players |->
                     [ hasDealt |-> w.gs.players[id].hasDealt,
                       dealAmount |-> w.gs.players[id].dealAmount,
                       roundDealt |-> w.gs.players[id].roundDealt,
                       isLastStanding |-> w.gs.players[id].isLastStanding,
                       timeoutCount |-> w.gs.players[id].timeoutCount ]],
      turnOrder |-> w.gs.turnOrder,
      currentTurnIndex |-> w.gs.currentTurnIndex,
      opened |-> {b \in DOMAIN w.gs.boxes : w.gs.boxes[b].isOpened},
      eliminated |-> [v \in Range(w.gs.eliminatedValues) |->
                        Cardinality({i \in DOMAIN w.gs.eliminatedValues :
                                        w.gs.eliminatedValues[i] = v})] ]

\* C37: the answers to an offer commute.  From every offer, whatever each
\* contestant who has yet to answer answers, the state after all of them have
\* answered is the same in every order of arrival.
C37_ResponsesCommute ==
    gameState.phase = "offer" =>
       LET ids == Range(Pending(gameState))
       IN  \A answers \in [ids -> BOOLEAN], rf \in {90, 110} :
              \A order \in ArrivalOrders(ids) :
                 ResolvedState(AnswerAll(World, order, answers, rf))
                    = ResolvedState(AnswerAll(World, Pending(gameState), answers, rf))

\* round 2 of the first game with two of three contestants: the third took
\* the offer of round 1 that the two others rejected
C37_Witness ==
    /\ gameState.phase = "playing"
    /\ gameState.currentRound = 2
    /\ gameState.startedAt = 1
    /\ Len(ContestantIds(gameState)) = 3
    /\ Len(ActiveIds(gameState)) = 2
    /\ \E id \in PlayerIds(gameState) :
          gameState.players[id].hasDealt /\ gameState.players[id].roundDealt = 1
    /\ DOMAIN gameState.offerResponses = {}

\* C38: a disconnect of connection s marks a player as not connected only if
\* s is that player's current connection (players[id].socketId), so a player
\* who is back on a new connection stays connected when the old connection
\* closes late; and a player is marked as connected exactly when the index
\* maps their current connection to them.
C38_LateDisconnect ==
    /\ \A s \in Sockets, id \in PlayerIds(gameState) :
          LET left == handleDisconnect(gameState, socketToPlayer, s)
          IN  (gameState.players[id].isConnected /\ ~left.gs.players[id].isConnected)
                 => gameState.players[id].socketId = s
    /\ \A id \in PlayerIds(gameState) :
          gameState.players[id].isConnected
             <=> socketToPlayer[gameState.players[id].socketId] = id

\* C39: when the sweep deletes the stale room and leaves the other room in
\* the store, the store loses the stale room, its chat and the index entries
\* of its own players and nothing else: every connection that resolved to a
\* player of the other room resolves to the same player and room afterwards,
\* also when that connection had created or joined the deleted room before.
C39_DeleteFrame ==
    LET swept == cleanupAllRooms(Store, gameState, otherRoom, now)
    IN  (RoomCode \in rooms /\ RoomCode \notin swept.store.rooms
            /\ OtherCode \in swept.store.rooms) =>
           /\ swept.store.rooms = rooms \ {RoomCode}
           /\ swept.store.chatMessages = << >>
           /\ swept.other = otherRoom
           /\ \A s \in Sockets :
                 socketToPlayer[s] \in PlayerIds(gameState) =>
                    swept.store.socketToPlayer[s] = Null
           /\ \A s \in Sockets :
                 IsOtherPlayer(otherRoom, socketToPlayer[s]) =>
                    /\ swept.store.socketToPlayer[s] = socketToPlayer[s]
                    /\ RoomOfSocket(swept.store, swept.other, s) = OtherCode

\* C40: every started game terminates.  When every armed timer fires and the
\* player whose turn it is opens an openable box sooner or later, a room that
\* has left the waiting phase reaches the finished phase, however the
\* contestants answer the offers or fail to answer them.
C40_Terminates ==
    (gameState.phase # "waiting") ~> (gameState.phase = "finished")

====
